---- MODULE Spec2Model ----
(***************************************************************************)
(* Batch todo execution and tool-call response submission of the          *)
(* useGeminiStream hook (packages/cli/src/ui/hooks/useGeminiStream.ts).   *)
(*                                                                         *)
(* React state (todos, executionQueue, isResponding, toolCalls) is kept    *)
(* apart from what the hook's callbacks see of it: refs that are synced by *)
(* effects after a render (todosRef, executionQueueRef) and values that a  *)
(* callback closes over at render time (isResponding, streamingState).     *)
(* A state setter changes the state at once; Render copies it into the     *)
(* refs and closures.                                                      *)
(*                                                                         *)
(* Scheduling.  A continuation after `await import(...)` and the           *)
(* scheduler's onComplete callback are promise jobs: they run before any   *)
(* timer, render, tool step or key press (NoJobs).  Only the stream that   *)
(* raised an un-awaited error / cancel handler may race with that handler. *)
(* The 500 ms continuation timer fires after the render it waits for, and  *)
(* the first event of a stream arrives after the render that follows the   *)
(* request; later events of the same stream may arrive before a render.    *)
(***************************************************************************)
EXTENDS Integers, Sequences, FiniteSets, TLC

\* ---------------------------------------------------------------- bounds
\* todos of the converted plan
NumTodos == 3
\* requests sent to the model
MaxTurns == 3
\* tool calls the scheduler gets to track
MaxCalls == 2
\* tool calls requested by the turns of a batch run
MaxQueueCalls == 1
\* /todos execute-all commands
MaxRuns == 2

\* slash commands that submit a prompt
MaxPrompts == 2
\* registered agents the Router chooses from
NumAgents == 2
\* keywords of one agent the input can contain
MaxKeywords == 2
\* patterns of one agent the input can match
MaxPatterns == 4
\* agents a task can be handed to
NumHandoffAgents == 7
\* values createCorrelationId can return
MaxCorrelationIds == 2
\* runs of pack:prepare without a pack:restore in between
MaxPrepares == 2
\* steps and parallel groups of a workflow
NumSteps == 3
\* member steps of a parallel group
MaxMembers == 2
\* content events taken into the pending message of a session
MaxContent == 2

TodoIds == 1..NumTodos
TurnIds == 1..MaxTurns
CallIds == 1..MaxCalls
PromptIds == 1..MaxPrompts
AgentIds == 1..NumAgents
HandoffAgents == 1..NumHandoffAgents
CorrelationIds == 1..MaxCorrelationIds
StepIds == 1..NumSteps
MemberIds == 1..MaxMembers

VARIABLES
  deps,               \* Todo.dependencies, fixed when the plan is converted
  todos,              \* React state: status of every todo
  executionQueue,     \* React state: the ExecutionQueue (or NoQueue)
  todosRef,           \* todosRef.current
  executionQueueRef,  \* executionQueueRef.current
  isResponding,       \* React state
  rendered,           \* what the callbacks of the last render closed over
  approvalMode,       \* config.getApprovalMode()
  turnCancelledRef,   \* turnCancelledRef.current
  abortRef,           \* turn whose AbortController is abortControllerRef.current
  turns,              \* every submitQuery call that reached sendMessageStream
  nTurns,
  toolCalls,          \* calls tracked by the tool scheduler
  nCalls,
  jobs,               \* pending promise continuations
  timers,             \* pending setTimeout(submitQueryRef.current(nextPrompt), 500)
  report,             \* last batch message added to the history
  sendCount,          \* per call: how often its response went to the model
  halted,             \* the first error event or cancellation that hit the batch
  nRuns,              \* /todos execute-all commands issued
  editTool,           \* per call: EDIT_TOOL_NAMES.has(call.request.name)
  autoApproved,       \* calls handleApprovalModeChange has confirmed
  confirmErrors,      \* calls whose auto-approval failed at the last mode change
  routeOpts,          \* plan mode, routing setting, router and agents of the session
  routeRuns,          \* per submit_prompt command: how far prepareQueryForGemini got
  routerIn,           \* Router: what the input matches of every agent's triggers
  routerOut,          \* Router: the RouteDecision (or NoMatch) of the last route call
  chain,              \* Handoff Manager: HandoffRequest.chain
  depth,              \* Handoff Manager: HandoffRequest.depth
  correlationId,      \* Handoff Manager: HandoffRequest.correlationId of the chain
  handoffResult,      \* Handoff Manager: outcome of the last requestHandoff
  workflow,           \* Workflow Executor: the WorkflowDefinition of the run
  wfRun,              \* Workflow Executor: state of the run and the item it is at
  stepResults,        \* Workflow Executor: StepResult.status by step (and sub-step)
  todoOutcome,        \* /todos commands: what the last one answered
  adapterCall,        \* CustomAdapter: request, options.requestBody, converted request
  pack,               \* pack scripts: package.json, package.json.backup
  display             \* history items 'Request cancelled.' and the pending message

approvalVars == <<editTool, autoApproved, confirmErrors>>

routingVars == <<routeOpts, routeRuns>>

routerVars == <<routerIn, routerOut>>

handoffVars == <<chain, depth, correlationId, handoffResult>>

workflowVars == <<workflow, wfRun, stepResults>>

\* what the Workflow Executor neither reads nor writes
toolingVars == <<todoOutcome, adapterCall, pack, display>>

\* the Workflow Executor, the /todos commands, the adapter, the pack scripts
extVars == <<workflowVars, toolingVars>>

\* what the batch and tool-call handlers neither read nor write
aux == <<approvalVars, routingVars, routerVars, handoffVars, extVars>>

vars == <<aux, deps, todos, executionQueue, todosRef, executionQueueRef, isResponding,
          rendered, approvalMode, turnCancelledRef, abortRef, turns, nTurns,
          toolCalls, nCalls, jobs, timers, report, sendCount, halted,
          nRuns>>

\* the state of the hook itself
hookVars == <<deps, todos, executionQueue, todosRef, executionQueueRef, isResponding,
              rendered, approvalMode, turnCancelledRef, abortRef, turns, nTurns,
              toolCalls, nCalls, jobs, timers, report, sendCount, halted,
              nRuns>>

\* ---------------------------------------------------------------- data
NoQueue ==
  [active |-> FALSE, mode |-> "default", currentIndex |-> 0, totalCount |-> 0,
   executingTodoId |-> 0]

NoTurn == [phase |-> "none", kind |-> "none", ref |-> 0, aborted |-> FALSE]

EndedTurn == [phase |-> "ended", kind |-> "none", ref |-> 0, aborted |-> FALSE]

NoCall ==
  [status |-> "none", batch |-> 0, client |-> FALSE, submitted |-> FALSE,
   notified |-> FALSE, aborted |-> FALSE, history |-> FALSE]

NoReport == [kind |-> "none", done |-> 0, total |-> 0]

NoSnap == [t \in TodoIds |-> "pending"]

NoHalt ==
  [by |-> "none", todo |-> 0, index |-> 0, total |-> 0, before |-> NoSnap,
   reported |-> FALSE]

\* --mode of the batch runs: /todos execute-all --mode=auto_edit
Modes == {"auto_edit"}

\* Dependency graphs a converted plan has: every step depends on earlier
\* steps only (independent steps, a star on step 1, a chain).
Independent == [t \in TodoIds |-> {}]
Star == [t \in TodoIds |-> IF t = 1 THEN {} ELSE {1}]
Chain == [t \in TodoIds |-> IF t = 1 THEN {} ELSE {t - 1}]
DepGraphs == {Independent, Star, Chain}

Min(S) == CHOOSE x \in S : \A y \in S : x <= y

Terminal(st) == st \in {"success", "error", "cancelled"}

Pending(st) == st \in {"validating", "scheduled", "awaiting_approval", "executing"}

\* ---------------------------------------------------------------- pure parts

\* StreamingState that takes a terminal call for done whether or not its
\* response was submitted
StreamingStateIgnoringSubmission(resp, calls) ==
  IF \E c \in CallIds : calls[c].status = "awaiting_approval"
    THEN "WaitingForConfirmation"
  ELSE IF resp \/ \E c \in CallIds :
            calls[c].status \in {"executing", "scheduled", "validating"}
    THEN "Responding"
  ELSE "Idle"

\* StreamingState of a render
StreamingStateOf(resp, calls) ==
  IF \E c \in CallIds : calls[c].status = "awaiting_approval"
    THEN "WaitingForConfirmation"
  ELSE IF resp \/ \E c \in CallIds :
            \/ calls[c].status \in {"executing", "scheduled", "validating"}
            \/ Terminal(calls[c].status) /\ ~calls[c].submitted
    THEN "Responding"
  ELSE "Idle"

\* the pending todos, whatever their dependencies
ReadyIgnoringDependencies(td) == {t \in TodoIds : td[t] = "pending"}

\* todoUtils.getNextExecutableTodo: first pending todo whose dependencies are
\* all completed (0 when there is none)
Ready(td) ==
  {t \in TodoIds : td[t] = "pending" /\ \A d \in deps[t] : td[d] = "completed"}

getNextExecutableTodo(td) == IF Ready(td) = {} THEN 0 ELSE Min(Ready(td))

\* updateTodo(id, {status})
updateTodo(td, id, st) == [td EXCEPT ![id] = st]

\* ---------------------------------------------------------------- Init
\* the hook before its first command, whatever the plan
InitSession ==
  /\ todos = [t \in TodoIds |-> "pending"]
  /\ executionQueue = NoQueue
  /\ todosRef = todos
  /\ executionQueueRef = NoQueue
  /\ isResponding = FALSE
  /\ rendered = [isResponding |-> FALSE, streamingState |-> "Idle"]
  /\ approvalMode = "DEFAULT"
  /\ turnCancelledRef = FALSE
  /\ abortRef = 0
  /\ turns = [t \in TurnIds |-> NoTurn]
  /\ nTurns = 0
  /\ toolCalls = [c \in CallIds |-> NoCall]
  /\ nCalls = 0
  /\ jobs = {}
  /\ timers = {}
  /\ report = NoReport
  /\ sendCount = [c \in CallIds |-> 0]
  /\ halted = NoHalt
  /\ nRuns = 0

InitHook == deps \in DepGraphs /\ InitSession

\* a session without agents, routing left to the smart default
NoRouteOpts ==
  [planModeActive |-> FALSE, routingConfig |-> "auto", routerEnabled |-> FALSE,
   hasAgents |-> FALSE]

\* default priority of an agent's triggers: t.priority ?? 50
DefaultPriority == 50

\* triggers.priority of the registered agents: a low one, the highest, and
\* agents that leave it out
AgentPriority(a) == IF a = 1 THEN 30 ELSE IF a = 2 THEN 100 ELSE DefaultPriority

\* configured confidence thresholds
Thresholds == {30, 58}

\* the input matches no keyword and no pattern of any agent
NoRouterIn ==
  [threshold |-> Min(Thresholds),
   matches |-> [a \in AgentIds |-> [keywords |-> 0, patterns |-> 0]]]

\* no route call made
NoDecision ==
  [strategy |-> "none", agent |-> 0, confidence |-> 0, llmCalled |-> FALSE,
   llm |-> [kind |-> "none", agent |-> 0]]

\* no requestHandoff made
NoHandoff ==
  [outcome |-> "none", reason |-> "none", to |-> 0, contextCopied |-> FALSE,
   invoked |-> 0]

\* no handoff of the task yet: no correlationId generated
NoCorrelationId == 0

\* a submit_prompt command not yet given
NoRun == [stage |-> "none", attempted |-> FALSE, agentResponse |-> FALSE,
          shouldProceed |-> FALSE]

\* no tracked call yet: nothing is known to be an edit tool
InitApproval ==
  /\ editTool = [c \in CallIds |-> FALSE]
  /\ autoApproved = {}
  /\ confirmErrors = {}

\* no submit_prompt command yet
InitRouting ==
  /\ routeOpts = NoRouteOpts
  /\ routeRuns = [p \in PromptIds |-> NoRun]

\* no route call yet, on an input that matches nothing
InitRouter ==
  /\ routerIn = NoRouterIn
  /\ routerOut = NoDecision

\* a task with its initial agent, not handed off
InitHandoff ==
  /\ chain = <<1>>
  /\ depth = 0
  /\ correlationId = NoCorrelationId
  /\ handoffResult = NoHandoff

\* min_success left out of a group's error_handling
NoMinSuccess == -1

\* a workflow of sequential steps under the default error policy
NoWorkflow ==
  [groupAt |-> 0, minSuccess |-> NoMinSuccess, groupOnError |-> "none",
   onError |-> "abort"]

\* no StepResult written
NoResults == [i \in StepIds |-> [m \in 0..MaxMembers |-> "none"]]

\* a run that has not started
InitWorkflow ==
  /\ workflow = NoWorkflow
  /\ wfRun = [status |-> "Pending", at |-> 0]
  /\ stepResults = NoResults

\* no /todos command given yet
NoOutcome == [outcome |-> "none", todo |-> 0, order |-> <<>>]

\* the fields of a request body the adapter sends
BodyKeys == {"model", "messages", "max_tokens", "thinking"}

\* a body without any field
NoBody == [k \in BodyKeys |-> "absent"]

\* no request converted yet, by an adapter without options.requestBody
NoAdapterCall ==
  [request |-> [model |-> "glm-4.6", messages |-> "hello", maxTokens |-> "absent"],
   requestBody |-> NoBody, converted |-> NoBody, done |-> FALSE]

\* no file at that path
NoFile ==
  [dependencies |-> "absent", devDependencies |-> "absent",
   optionalDependencies |-> "absent", layout |-> "absent"]

\* a package.json without dependencies, never prepared for packing
NoPack ==
  [original |-> [dependencies |-> "absent", devDependencies |-> "absent",
                 optionalDependencies |-> "absent", layout |-> "written"],
   packageJson |-> [dependencies |-> "absent", devDependencies |-> "absent",
                    optionalDependencies |-> "absent", layout |-> "written"],
   backup |-> NoFile, prepares |-> 0, last |-> "none"]

\* nothing cancelled yet, no pending message
NoDisplay == [cancelTurn |-> 0, cancelItems |-> 0, pending |-> 0]

InitTooling ==
  /\ display = NoDisplay
  /\ todoOutcome = NoOutcome
  /\ adapterCall = NoAdapterCall
  /\ pack = NoPack

InitExt == InitWorkflow /\ InitTooling

InitAux == InitApproval /\ InitRouting /\ InitRouter /\ InitHandoff /\ InitExt

Init == InitHook /\ InitAux


\* ---------------------------------------------------------------- scheduling
NoJobs == jobs = {}

\* the stream of turn t may deliver its next event while handlers it raised
\* without awaiting them are still suspended at their `await import`
StreamMayStep(t) ==
  \A j \in jobs : j.turn = t /\ j.type \in {"error", "cancel"}

Dirty ==
  \/ todosRef # todos
  \/ executionQueueRef # executionQueue
  \/ rendered.isResponding # isResponding
  \/ rendered.streamingState # StreamingStateOf(isResponding, toolCalls)
  \/ \E t \in TurnIds : turns[t].phase = "sending"

Job(type, q, snap, t) == [type |-> type, q |-> q, snap |-> snap, turn |-> t]

\* the batch as an error event or a cancellation finds it
Halt(by) ==
  IF /\ halted.by = "none"
     /\ executionQueue.active
     /\ executionQueue.executingTodoId # 0
     /\ todos[executionQueue.executingTodoId] = "in_progress"
    THEN [by |-> by, todo |-> executionQueue.executingTodoId,
          index |-> executionQueue.currentIndex, total |-> executionQueue.totalCount,
          before |-> todos, reported |-> FALSE]
    ELSE halted

\* submitQuery from the new AbortController up to sendMessageStream
StartTurn(kind, ref) ==
  /\ nTurns < MaxTurns
  /\ nTurns' = nTurns + 1
  /\ turns' = [turns EXCEPT ![nTurns + 1] =
                 [phase |-> "sending", kind |-> kind, ref |-> ref, aborted |-> FALSE]]
  /\ abortRef' = nTurns + 1
  /\ turnCancelledRef' = FALSE
  /\ isResponding' = TRUE

\* ---------------------------------------------------------------- commands

\* /todos execute-all [--mode=...]: rescans the pending todos, starts the queue
\* on the first executable one and submits its prompt
ExecuteAll(mode) ==
  /\ NoJobs
  /\ ~Dirty
  /\ nRuns < MaxRuns
  /\ rendered.streamingState = "Idle"
  /\ ~executionQueue.active
  /\ getNextExecutableTodo(todos) # 0
  /\ LET first == getNextExecutableTodo(todos) IN
       /\ todos' = updateTodo(todos, first, "in_progress")
       /\ executionQueue' =
            [active |-> TRUE, mode |-> mode, currentIndex |-> 1,
             totalCount |-> Cardinality({t \in TodoIds : todos[t] = "pending"}),
             executingTodoId |-> first]
       /\ StartTurn("prompt", first)
  /\ approvalMode' = IF mode = "auto_edit" THEN "AUTO_EDIT" ELSE approvalMode
  /\ halted' = NoHalt
  /\ nRuns' = nRuns + 1
  /\ report' = NoReport
  /\ UNCHANGED <<aux, deps, todosRef, executionQueueRef, rendered, toolCalls, nCalls,
                 jobs, timers, sendCount>>

\* a render and the effects that follow it
Render ==
  /\ NoJobs
  /\ Dirty
  /\ todosRef' = todos
  /\ executionQueueRef' = executionQueue
  /\ rendered' = [isResponding |-> isResponding,
                  streamingState |-> StreamingStateOf(isResponding, toolCalls)]
  /\ turns' = [t \in TurnIds |->
                 IF turns[t].phase = "sending"
                   THEN [turns[t] EXCEPT !.phase = "open"]
                   ELSE turns[t]]
  /\ UNCHANGED <<aux, deps, todos, executionQueue, isResponding, approvalMode,
                 turnCancelledRef, abortRef, nTurns, toolCalls, nCalls, jobs,
                 timers, report, sendCount, halted, nRuns>>

\* Escape while responding
cancelOngoingRequest ==
  /\ NoJobs
  /\ ~Dirty
  /\ rendered.streamingState = "Responding"
  /\ ~turnCancelledRef
  /\ turnCancelledRef' = TRUE
  /\ turns' = [t \in TurnIds |->
                 IF t = abortRef /\ turns[t].phase \in {"open", "closing"}
                   THEN [turns[t] EXCEPT !.aborted = TRUE]
                   ELSE turns[t]]
  /\ toolCalls' = [c \in CallIds |->
                     IF toolCalls[c].batch = abortRef /\ Pending(toolCalls[c].status)
                       THEN [toolCalls[c] EXCEPT !.aborted = TRUE]
                       ELSE toolCalls[c]]
  /\ isResponding' = FALSE
  /\ halted' = Halt("cancel")
  /\ display' = [cancelTurn |-> abortRef,
                 cancelItems |-> IF display.cancelTurn = abortRef
                                   THEN display.cancelItems + 1 ELSE 1,
                 pending |-> 0]
  /\ UNCHANGED <<approvalVars, routingVars, routerVars, handoffVars, workflowVars,
                 todoOutcome, adapterCall, pack, deps, todos, executionQueue, todosRef,
                 executionQueueRef, rendered, approvalMode, abortRef, nTurns, nCalls,
                 jobs, timers, report, sendCount, nRuns>>

\* ---------------------------------------------------------------- stream events

\* ServerGeminiEventType.Error: handleErrorEvent up to its await
handleErrorEvent(t) ==
  /\ turns[t].phase = "open"
  /\ ~turns[t].aborted
  /\ StreamMayStep(t)
  /\ turns' = [turns EXCEPT ![t].phase = "closing"]
  /\ jobs' = IF executionQueueRef.active
               THEN jobs \cup {Job("error", executionQueueRef, NoSnap, t)}
               ELSE jobs
  /\ halted' = Halt("error")
  /\ UNCHANGED <<aux, deps, todos, executionQueue, todosRef, executionQueueRef,
                 isResponding, rendered, approvalMode, turnCancelledRef, abortRef,
                 nTurns, toolCalls, nCalls, timers, report, sendCount, nRuns>>

\* handleErrorEvent after its await
handleErrorEventResume(j) ==
  /\ j \in jobs
  /\ j.type = "error"
  /\ jobs' = jobs \ {j}
  /\ todos' = IF j.q.executingTodoId # 0
                THEN updateTodo(todos, j.q.executingTodoId, "cancelled")
                ELSE todos
  /\ report' = [kind |-> "failed", done |-> j.q.currentIndex, total |-> j.q.totalCount]
  /\ executionQueue' = NoQueue
  /\ approvalMode' = "DEFAULT"
  /\ halted' = IF halted.by = "error" /\ j.q.currentIndex = halted.index
                    /\ j.q.totalCount = halted.total
                 THEN [halted EXCEPT !.reported = TRUE]
                 ELSE halted
  /\ UNCHANGED <<aux, deps, todosRef, executionQueueRef, isResponding, rendered,
                 turnCancelledRef, abortRef, turns, nTurns, toolCalls, nCalls, timers,
                 sendCount, nRuns>>

\* ServerGeminiEventType.UserCancelled: handleUserCancelledEvent up to its await
handleUserCancelledEvent(t) ==
  /\ turns[t].phase = "open"
  /\ turns[t].aborted
  /\ StreamMayStep(t)
  /\ turns' = [turns EXCEPT ![t].phase = "closing"]
  /\ IF turnCancelledRef
       THEN UNCHANGED <<isResponding, jobs>>
       ELSE /\ isResponding' = FALSE
            /\ jobs' = IF executionQueueRef.active
                         THEN jobs \cup {Job("cancel", executionQueueRef, NoSnap, t)}
                         ELSE jobs
  /\ UNCHANGED <<aux, deps, todos, executionQueue, todosRef, executionQueueRef, rendered,
                 approvalMode, turnCancelledRef, abortRef, nTurns, toolCalls, nCalls,
                 timers, report, sendCount, halted, nRuns>>

\* handleUserCancelledEvent after its await
handleUserCancelledEventResume(j) ==
  /\ j \in jobs
  /\ j.type = "cancel"
  /\ jobs' = jobs \ {j}
  /\ report' = [kind |-> "interrupted", done |-> j.q.currentIndex - 1,
                total |-> j.q.totalCount]
  /\ executionQueue' = NoQueue
  /\ approvalMode' = "DEFAULT"
  /\ UNCHANGED <<aux, deps, todos, todosRef, executionQueueRef, isResponding, rendered,
                 turnCancelledRef, abortRef, turns, nTurns, toolCalls, nCalls, timers,
                 sendCount, halted, nRuns>>

\* ---------------------------------------------------------------- end of a turn

\* finally block, single todo: auto-complete the one in-progress todo
AutoComplete(td, status) ==
  LET inProgress == {x \in TodoIds : todosRef[x] = "in_progress"} IN
    IF status = "Completed" /\ ~executionQueueRef.active /\ Cardinality(inProgress) = 1
      THEN updateTodo(td, CHOOSE x \in inProgress : TRUE, "completed")
      ELSE td

\* handleNextTodo up to its await: mark the executing todo completed
MarkExecutingCompleted(td, q) ==
  IF q.executingTodoId # 0 THEN updateTodo(td, q.executingTodoId, "completed") ELSE td

\* finally block: what it does to the todos, and the continuation it leaves
FinallyTodos(status) ==
  IF executionQueueRef.active
    THEN MarkExecutingCompleted(AutoComplete(todos, status), executionQueueRef)
    ELSE AutoComplete(todos, status)

FinallyJobs(t) ==
  IF executionQueueRef.active
    THEN jobs \cup {Job("next", executionQueueRef, todosRef, t)}
    ELSE jobs

NewCall(t, isClient, isAborted) ==
  [status |-> "validating", batch |-> t, client |-> isClient, submitted |-> FALSE,
   notified |-> FALSE, aborted |-> isAborted, history |-> FALSE]

\* scheduleToolCalls(requests, signal): n new calls of turn t; the scheduler's
\* list no longer holds the calls whose responses were submitted
scheduleToolCalls(t, n, isClient, isAborted) ==
  IF n = 0 THEN toolCalls
  ELSE [c \in CallIds |->
          IF c > nCalls /\ c <= nCalls + n THEN NewCall(t, isClient, isAborted)
          ELSE IF toolCalls[c].submitted THEN NoCall
          ELSE toolCalls[c]]

\* the stream of turn t ends with n tool call requests collected:
\* scheduleToolCalls, return Completed, finally
processGeminiStreamEvents(t, n) ==
  /\ turns[t].phase \in {"open", "closing"}
  /\ StreamMayStep(t)
  /\ nCalls + n <= MaxCalls
  /\ toolCalls' = scheduleToolCalls(t, n, FALSE, turns[t].aborted)
  /\ nCalls' = nCalls + n
  /\ turns' = [turns EXCEPT ![t] = EndedTurn]
  /\ isResponding' = FALSE
  /\ todos' = FinallyTodos("Completed")
  /\ jobs' = FinallyJobs(t)
  /\ UNCHANGED <<aux, deps, executionQueue, todosRef, executionQueueRef, rendered,
                 approvalMode, turnCancelledRef, abortRef, nTurns, timers, report,
                 sendCount, halted, nRuns>>

\* sendMessageStream throws: catch, finally (processingStatus stays null)
StreamThrows(t) ==
  /\ turns[t].phase \in {"open", "closing"}
  /\ StreamMayStep(t)
  /\ turns' = [turns EXCEPT ![t] = EndedTurn]
  /\ isResponding' = FALSE
  /\ todos' = FinallyTodos("null")
  /\ jobs' = FinallyJobs(t)
  /\ UNCHANGED <<aux, deps, executionQueue, todosRef, executionQueueRef, rendered,
                 approvalMode, turnCancelledRef, abortRef, nTurns, toolCalls, nCalls,
                 timers, report, sendCount, halted, nRuns>>

\* handleNextTodo after its await, and the .then() of the finally block
handleNextTodo(j) ==
  /\ j \in jobs
  /\ j.type = "next"
  /\ jobs' = jobs \ {j}
  /\ LET nextTodo == getNextExecutableTodo(j.snap) IN
       IF nextTodo = 0
         THEN /\ report' = [kind |-> "complete", done |-> j.q.currentIndex,
                            total |-> j.q.totalCount]
              /\ executionQueue' = NoQueue
              /\ approvalMode' = "DEFAULT"
              /\ UNCHANGED <<todos, timers>>
         ELSE /\ executionQueue' = [j.q EXCEPT !.currentIndex = j.q.currentIndex + 1,
                                               !.executingTodoId = nextTodo]
              /\ todos' = updateTodo(todos, nextTodo, "in_progress")
              /\ timers' = timers \cup {[todo |-> nextTodo,
                                         index |-> j.q.currentIndex + 1]}
              /\ UNCHANGED <<report, approvalMode>>
  /\ UNCHANGED <<aux, deps, todosRef, executionQueueRef, isResponding, rendered,
                 turnCancelledRef, abortRef, turns, nTurns, toolCalls, nCalls,
                 sendCount, halted, nRuns>>

\* a submitQuery that returns although the hook waits for a confirmation
returnsEarlyRespondingOnly(ss) == ss = "Responding"

\* submitQuery without isContinuation returns at once in these streaming states
returnsEarly(ss) == ss \in {"Responding", "WaitingForConfirmation"}

\* the 500 ms timer: submitQueryRef.current(nextPrompt)
submitQuery(p) ==
  /\ NoJobs
  /\ ~Dirty
  /\ p \in timers
  /\ timers' = timers \ {p}
  /\ IF returnsEarly(rendered.streamingState)
       THEN UNCHANGED <<turns, nTurns, abortRef, turnCancelledRef, isResponding>>
       ELSE StartTurn("prompt", p.todo)
  /\ UNCHANGED <<aux, deps, todos, executionQueue, todosRef, executionQueueRef, rendered,
                 approvalMode, toolCalls, nCalls, jobs, report, sendCount, halted,
                 nRuns>>


\* ---------------------------------------------------------------- tool scheduler

BatchOf(calls, b) == {c \in CallIds : calls[c].status # "none" /\ calls[c].batch = b}

AllTerminal(calls, b) == \A c \in BatchOf(calls, b) : Terminal(calls[c].status)

\* a status change of call c, with onComplete called for every call that
\* reaches a final state
SetStatusNotifyingEachCall(c, st) ==
  LET calls == [toolCalls EXCEPT ![c].status = st,
                                 ![c].aborted = (toolCalls[c].aborted /\ ~Terminal(st))]
      b == toolCalls[c].batch IN
    /\ toolCalls' = calls
    /\ jobs' = IF Terminal(st)
                 THEN jobs \cup {Job("complete", NoQueue, NoSnap, b)}
                 ELSE jobs
    /\ UNCHANGED <<aux, deps, todos, executionQueue, todosRef, executionQueueRef,
                   isResponding, rendered, approvalMode, turnCancelledRef, abortRef,
                   turns, nTurns, nCalls, timers, report, sendCount, halted,
                   nRuns>>

\* a status change of call c; the scheduler calls onComplete when it leaves
\* every call of the batch in a final state
SetStatus(c, st) ==
  LET calls == [toolCalls EXCEPT ![c].status = st,
                                 ![c].aborted = (toolCalls[c].aborted /\ ~Terminal(st))]
      b == toolCalls[c].batch IN
    /\ toolCalls' = calls
    /\ jobs' = IF Terminal(st) /\ AllTerminal(calls, b)
                 THEN jobs \cup {Job("complete", NoQueue, NoSnap, b)}
                 ELSE jobs
    /\ UNCHANGED <<aux, deps, todos, executionQueue, todosRef, executionQueueRef,
                   isResponding, rendered, approvalMode, turnCancelledRef, abortRef,
                   turns, nTurns, nCalls, timers, report, sendCount, halted,
                   nRuns>>

\* validating -> scheduled
ToolValidate(c) ==
  /\ NoJobs
  /\ toolCalls[c].status = "validating"
  /\ ~toolCalls[c].aborted
  /\ SetStatus(c, "scheduled")

\* scheduled -> awaiting_approval when the call needs a confirmation, else executing
ToolDispatch(c, needsApproval) ==
  /\ NoJobs
  /\ toolCalls[c].status = "scheduled"
  /\ ~toolCalls[c].aborted
  /\ needsApproval => approvalMode # "YOLO"
  /\ SetStatus(c, IF needsApproval THEN "awaiting_approval" ELSE "executing")

\* the user answers the confirmation: proceed or cancel
ToolConfirm(c, proceed) ==
  /\ NoJobs
  /\ ~Dirty
  /\ toolCalls[c].status = "awaiting_approval"
  /\ SetStatus(c, IF proceed THEN "executing" ELSE "cancelled")

\* a result of the Tool Execution Service for a call that was not released
ToolFinishWithoutApproval(c, ok) ==
  /\ NoJobs
  /\ toolCalls[c].status \in {"executing", "awaiting_approval"}
  /\ SetStatus(c, IF ok THEN "success" ELSE "error")

\* the Tool Execution Service returns
ToolFinish(c, ok) ==
  /\ NoJobs
  /\ toolCalls[c].status = "executing"
  /\ SetStatus(c, IF ok THEN "success" ELSE "error")

\* the abort signal of the call's turn was raised
ToolAbort(c) ==
  /\ NoJobs
  /\ Pending(toolCalls[c].status)
  /\ toolCalls[c].aborted
  /\ SetStatus(c, "cancelled")

\* ---------------------------------------------------------------- responses

\* onComplete hands the calls of the completed batch to handleCompletedTools
completedToolCallsFromScheduler(b) == BatchOf(toolCalls, b)

\* the calls in a final state (they carry response parts)
completedAndReadyToSubmitTools(calls) == {c \in calls : Terminal(toolCalls[c].status)}

clientTools(done) == {c \in done : toolCalls[c].client}

\* the model-initiated calls of a batch without the ones that failed
geminiToolsWithoutErrors(done) ==
  {c \in done : ~toolCalls[c].client /\ toolCalls[c].status # "error"}

geminiTools(done) == {c \in done : ~toolCalls[c].client}

\* markToolsAsSubmitted(callIds)
markToolsAsSubmitted(calls, ids) ==
  [c \in CallIds |-> IF c \in ids THEN [calls[c] EXCEPT !.submitted = TRUE] ELSE calls[c]]

\* a submission that takes the cancelled batches along
responsesToSendCancelledToo(done) ==
  IF rendered.isResponding THEN {} ELSE geminiTools(done)

\* the calls whose response parts go into the continuation request
responsesToSend(done) ==
  IF rendered.isResponding THEN {}
  ELSE IF \A c \in geminiTools(done) : toolCalls[c].status = "cancelled" THEN {}
  ELSE geminiTools(done)

\* the calls flagged as submitted
callIdsToMarkAsSubmitted(done) ==
  IF rendered.isResponding THEN {} ELSE done

\* allToolsCancelled: the calls whose response parts geminiClient.addHistory
\* appends to the chat history
combinedParts(done) ==
  IF rendered.isResponding THEN {}
  ELSE IF \A c \in geminiTools(done) : toolCalls[c].status = "cancelled"
    THEN geminiTools(done)
  ELSE {}

\* geminiClient.addHistory({role: 'user', parts})
addHistory(calls, ids) ==
  [c \in CallIds |-> IF c \in ids THEN [calls[c] EXCEPT !.history = TRUE] ELSE calls[c]]

\* onComplete of useReactToolScheduler: handleCompletedTools(batch)
handleCompletedTools(j) ==
  /\ j \in jobs
  /\ j.type = "complete"
  /\ jobs' = jobs \ {j}
  /\ LET done == completedAndReadyToSubmitTools(completedToolCallsFromScheduler(j.turn))
         sent == responsesToSend(done)
         noted == [c \in CallIds |->
                     IF c \in BatchOf(toolCalls, j.turn)
                       THEN [toolCalls[c] EXCEPT !.notified = TRUE]
                       ELSE toolCalls[c]] IN
       /\ toolCalls' = addHistory(markToolsAsSubmitted(noted, callIdsToMarkAsSubmitted(done)),
                                  combinedParts(done))
       /\ sendCount' = [c \in CallIds |->
                          IF c \in sent THEN sendCount[c] + 1 ELSE sendCount[c]]
       /\ IF sent # {}
            THEN StartTurn("cont", j.turn)
            ELSE UNCHANGED <<turns, nTurns, abortRef, turnCancelledRef, isResponding>>
  /\ UNCHANGED <<aux, deps, todos, executionQueue, todosRef, executionQueueRef, rendered,
                 approvalMode, nCalls, timers, report, halted, nRuns>>

\* a slash command that schedules a client-initiated tool (schedule_tool)
ScheduleClientTool ==
  /\ NoJobs
  /\ ~Dirty
  /\ rendered.streamingState = "Idle"
  /\ nCalls < MaxCalls
  /\ nTurns < MaxTurns
  /\ nTurns' = nTurns + 1
  /\ turns' = [turns EXCEPT ![nTurns + 1] =
                 EndedTurn]
  /\ abortRef' = nTurns + 1
  /\ turnCancelledRef' = FALSE
  /\ toolCalls' = scheduleToolCalls(nTurns + 1, 1, TRUE, FALSE)
  /\ nCalls' = nCalls + 1
  /\ UNCHANGED <<aux, deps, todos, executionQueue, todosRef, executionQueueRef,
                 isResponding, rendered, approvalMode, jobs, timers, report,
                 sendCount, halted, nRuns>>

\* the user submits a query of their own
UserPrompt ==
  /\ NoJobs
  /\ ~Dirty
  /\ rendered.streamingState = "Idle"
  /\ StartTurn("user", 0)
  /\ UNCHANGED <<aux, deps, todos, executionQueue, todosRef, executionQueueRef, rendered,
                 approvalMode, toolCalls, nCalls, jobs, timers, report, sendCount,
                 halted, nRuns>>

\* ---------------------------------------------------------------- specification
Next ==
  \/ \E mode \in Modes : ExecuteAll(mode)
  \/ Render
  \/ cancelOngoingRequest
  \/ \E t \in TurnIds : handleErrorEvent(t)
  \/ \E t \in TurnIds : handleUserCancelledEvent(t)
  \/ \E t \in TurnIds, withTools \in BOOLEAN :
       IF withTools
         THEN nCalls < MaxQueueCalls /\ processGeminiStreamEvents(t, 1)
         ELSE processGeminiStreamEvents(t, 0)
  \/ \E t \in TurnIds : StreamThrows(t)
  \/ \E j \in jobs : handleErrorEventResume(j)
  \/ \E j \in jobs : handleUserCancelledEventResume(j)
  \/ \E j \in jobs : handleNextTodo(j)
  \/ \E j \in jobs : handleCompletedTools(j)
  \/ \E p \in timers : submitQuery(p)
  \/ \E c \in CallIds : ToolValidate(c)
  \/ \E c \in CallIds, a \in BOOLEAN : ToolDispatch(c, a)
  \/ \E c \in CallIds, ok \in BOOLEAN : ToolConfirm(c, ok)
  \/ \E c \in CallIds, ok \in BOOLEAN : ToolFinish(c, ok)
  \/ \E c \in CallIds : ToolAbort(c)

Spec == Init /\ [][Next]_vars

\* the converted plans in which a step depends on another one
DependentPlans == {g \in DepGraphs : \E t \in TodoIds : g[t] # {}}

\* a session on a plan with dependencies
DependentInit == Init /\ deps \in DependentPlans

DependentSpec == DependentInit /\ [][Next]_vars

\* ---------------------------------------------------------------- batch run: properties

InProgress(td) == {t \in TodoIds : td[t] = "in_progress"}

\* a step that sends the prompt of todo t to the model
Dispatches(t) ==
  /\ nTurns' = nTurns + 1
  /\ turns'[nTurns'].kind = "prompt"
  /\ turns'[nTurns'].ref = t

\* nothing is left to run: no promise job, timer, render, stream or tool call
Settled ==
  /\ NoJobs
  /\ timers = {}
  /\ ~Dirty
  /\ \A t \in TurnIds : turns[t].phase \in {"none", "ended"}
  /\ \A c \in CallIds : ~Pending(toolCalls[c].status)

\* C1: while the ExecutionQueue is active, a todo is marked in_progress, or has
\* its prompt dispatched, only when every one of its dependencies is completed.
C1_DependenciesCompletedFirst ==
  [][\A t \in TodoIds :
       (executionQueue'.active /\
          (t \in InProgress(todos') \ InProgress(todos) \/ Dispatches(t)))
         => \A d \in deps[t] : todos'[d] = "completed"]_vars

\* the queue moved on to a todo that has a dependency: it is in progress and
\* its prompt was sent
C1_Witness ==
  \E t \in TodoIds, u \in TurnIds :
    /\ deps[t] # {}
    /\ executionQueue.active
    /\ executionQueue.currentIndex = 2
    /\ executionQueue.executingTodoId = t
    /\ todos[t] = "in_progress"
    /\ turns[u].kind = "prompt" /\ turns[u].ref = t /\ turns[u].phase = "open"

\* C2: in batch mode the active todo is marked completed, and the next todo is
\* marked in_progress, only when no tool call is still validating, scheduled,
\* awaiting approval, executing or waiting for its response to be submitted.
C2_AdvanceOnlyAfterToolCalls ==
  [][(/\ executionQueueRef.active
      /\ \/ \E t \in InProgress(todos) : todos'[t] = "completed"
         \/ InProgress(todos') \ InProgress(todos) # {})
       => \A c \in CallIds :
            toolCalls'[c].status = "none" \/ toolCalls'[c].submitted]_vars

\* C3: after the user cancelled a batch run with todo T in progress, T is
\* cancelled, the todos that were completed or pending are as they were, and
\* the ExecutionQueue is cleared.
C3_CancelMarksActiveTodoCancelled ==
  (halted.by = "cancel" /\ Settled)
    => /\ todos[halted.todo] = "cancelled"
       /\ \A t \in TodoIds \ {halted.todo} :
            halted.before[t] \in {"completed", "pending"} => todos[t] = halted.before[t]
       /\ ~executionQueue.active

\* C4: after an error event hit a batch run with todo T active, T is cancelled
\* (not in_progress, not completed), the ExecutionQueue is cleared and the
\* failure is reported with currentIndex/totalCount.
C4_ErrorMarksActiveTodoCancelled ==
  (halted.by = "error" /\ Settled)
    => /\ todos[halted.todo] = "cancelled"
       /\ ~executionQueue.active
       /\ halted.reported

\* C5: once an error event or a cancellation hit the batch run, no todo is
\* marked in_progress and no batch prompt is submitted until a new run command.
C5_NoResumeAfterHalt ==
  [][(halted.by # "none" /\ halted'.by # "none")
       => /\ InProgress(todos') \subseteq InProgress(todos)
          /\ \A t \in TodoIds : ~Dispatches(t)]_vars

\* C6: while the ExecutionQueue is active, at most one todo is in_progress, and
\* it is the todo named by executingTodoId.
C6_OneTodoInProgress ==
  executionQueue.active => InProgress(todos) \subseteq {executionQueue.executingTodoId}

\* C7: when the batch is declared complete (completion message, queue cleared)
\* no pending todo has all its dependencies completed.
C7_CompleteOnlyWhenNothingReady ==
  [][(/\ report'.kind = "complete"
      /\ ~executionQueue'.active
      /\ report' # report \/ executionQueue' # executionQueue)
       => Ready(todos') = {}]_vars

\* ---------------------------------------------------------------- batch run without faults

AllCompleted == \A t \in TodoIds : todos[t] = "completed"

\* what goes on by itself once a batch run was started: no error event arrives
\* and nothing is cancelled
LiveProgress ==
  \/ Render
  \/ \E t \in TurnIds, withTools \in BOOLEAN :
       IF withTools
         THEN nCalls < MaxQueueCalls /\ processGeminiStreamEvents(t, 1)
         ELSE processGeminiStreamEvents(t, 0)
  \/ \E j \in jobs : handleNextTodo(j)
  \/ \E j \in jobs : handleCompletedTools(j)
  \/ \E p \in timers : submitQuery(p)
  \/ \E c \in CallIds : ToolValidate(c)
  \/ \E c \in CallIds, a \in BOOLEAN : ToolDispatch(c, a)
  \/ \E c \in CallIds : ToolConfirm(c, TRUE)
  \/ \E c \in CallIds, ok \in BOOLEAN : ToolFinish(c, ok)

LiveNext ==
  \/ \E mode \in Modes : ExecuteAll(mode)
  \/ LiveProgress

\* every turn, tool call, render, promise job and timer that can go on
\* eventually does; the user is free not to issue another run command
LiveSpec == Init /\ [][LiveNext]_vars /\ WF_vars(LiveProgress)

\* C8: a batch run without error events and cancellations ends with every todo
\* completed and the ExecutionQueue cleared, unless the model's budget of
\* requests (MaxTurns) is used up first.
C8_BatchRunsToCompletion ==
  executionQueue.active
    ~> ((AllCompleted /\ ~executionQueue.active) \/ nTurns = MaxTurns)

\* ---------------------------------------------------------------- tool calls of user turns

ToolInit == Init /\ deps = Independent

ToolNext ==
  \/ UserPrompt
  \/ ScheduleClientTool
  \/ Render
  \/ cancelOngoingRequest
  \/ \E t \in TurnIds : handleErrorEvent(t)
  \/ \E t \in TurnIds : handleUserCancelledEvent(t)
  \/ \E t \in TurnIds, n \in 0..MaxCalls : processGeminiStreamEvents(t, n)
  \/ \E t \in TurnIds : StreamThrows(t)
  \/ \E j \in jobs : handleCompletedTools(j)
  \/ \E c \in CallIds : ToolValidate(c)
  \/ \E c \in CallIds, a \in BOOLEAN : ToolDispatch(c, a)
  \/ \E c \in CallIds, ok \in BOOLEAN : ToolConfirm(c, ok)
  \/ \E c \in CallIds, ok \in BOOLEAN : ToolFinish(c, ok)
  \/ \E c \in CallIds : ToolAbort(c)

ToolSpec == ToolInit /\ [][ToolNext]_vars

\* C9: the response of a tool call is sent to the model at most once, and a call
\* flagged responseSubmitted is in no later submission.
C9_ResponseSentAtMostOnce ==
  [][\A c \in CallIds :
       /\ sendCount'[c] <= 1
       /\ toolCalls[c].submitted => sendCount'[c] = sendCount[c]]_vars

\* the responses of two batches were sent, the second after the first call had
\* been flagged and dropped
C9_Witness ==
  /\ sendCount[1] = 1
  /\ sendCount[2] = 1
  /\ toolCalls[1].status = "none"
  /\ toolCalls[2].submitted

\* C10: when a batch of model-initiated tool calls has completed (not every
\* call of it cancelled), the step that handles the completion makes one
\* continuation request that carries the response of every call of the batch.
C10_OneContinuationPerBatch ==
  [][\A b \in TurnIds :
       (/\ \E c \in BatchOf(toolCalls, b) :
             ~toolCalls[c].notified /\ toolCalls'[c].notified
        /\ \E c \in geminiTools(BatchOf(toolCalls, b)) :
             toolCalls[c].status # "cancelled")
         => /\ nTurns' = nTurns + 1
            /\ turns'[nTurns'].kind = "cont" /\ turns'[nTurns'].ref = b
            /\ \A c \in geminiTools(BatchOf(toolCalls, b)) : sendCount'[c] = 1]_vars

C12_NothingAfterCancellation ==
  [][\A b \in TurnIds :
       /\ \A c \in BatchOf(toolCalls, b) :
            toolCalls[c].aborted
              => \/ toolCalls'[c].status = toolCalls[c].status
                 \/ toolCalls'[c].status \notin {"scheduled", "awaiting_approval",
                                                "executing"}
       /\ (turnCancelledRef /\ abortRef = b)
            => ~(/\ nTurns' = nTurns + 1
                 /\ turns'[nTurns'].kind = "cont"
                 /\ turns'[nTurns'].ref = b)]_vars

\* ---------------------------------------------------------------- approval mode

ApprovalModes == {"DEFAULT", "AUTO_EDIT", "YOLO"}

\* every call that waits for a confirmation, whatever its tool
awaitingApprovalCallsOfAnyTool(newApprovalMode) ==
  IF newApprovalMode \in {"YOLO", "AUTO_EDIT"}
    THEN {c \in CallIds : toolCalls[c].status = "awaiting_approval"}
    ELSE {}

\* the calls handleApprovalModeChange confirms
awaitingApprovalCalls(newApprovalMode) ==
  IF newApprovalMode \in {"YOLO", "AUTO_EDIT"}
    THEN {c \in CallIds :
            /\ toolCalls[c].status = "awaiting_approval"
            /\ newApprovalMode = "AUTO_EDIT" => editTool[c]}
    ELSE {}

\* a loop without the try/catch: the first failed confirmation ends it
confirmedUntilFirstFailure(selected, throwing) ==
  {c \in selected : \A d \in selected \cap throwing : c < d}

\* for (const call of awaitingApprovalCalls) try { await onConfirm } catch:
\* the calls confirmed when the onConfirm of the calls in throwing rejects
confirmedDespiteFailures(selected, throwing) == selected \ throwing

\* the user switches the approval mode: the mode is set and
\* handleApprovalModeChange(newApprovalMode) calls onConfirm(ProceedOnce) of
\* the calls it selects, one after the other; a call whose onConfirm rejects
\* is logged and left as it is
handleApprovalModeChangeThrowing(newApprovalMode, throwing) ==
  /\ NoJobs
  /\ ~Dirty
  /\ newApprovalMode # approvalMode
  /\ throwing \subseteq awaitingApprovalCalls(newApprovalMode)
  /\ approvalMode' = newApprovalMode
  /\ LET selected == awaitingApprovalCalls(newApprovalMode)
         confirmed == confirmedDespiteFailures(selected, throwing)
     IN /\ toolCalls' = [c \in CallIds |->
                           IF c \in confirmed
                             THEN [toolCalls[c] EXCEPT !.status = "executing"]
                             ELSE toolCalls[c]]
        /\ autoApproved' = autoApproved \cup confirmed
        /\ confirmErrors' = throwing
  /\ UNCHANGED <<editTool, routingVars, routerVars, handoffVars, extVars, deps, todos, executionQueue, todosRef,
                 executionQueueRef, isResponding, rendered, turnCancelledRef,
                 abortRef, turns, nTurns, nCalls, jobs, timers, report, sendCount,
                 halted, nRuns>>

\* the mode change when every confirmation goes through
handleApprovalModeChange(newApprovalMode) ==
  handleApprovalModeChangeThrowing(newApprovalMode, {})

\* the tools of the calls to come are edit tools or not
ApprovalInit ==
  /\ InitHook
  /\ deps = Independent
  /\ editTool \in [CallIds -> BOOLEAN]
  /\ autoApproved = {}
  /\ confirmErrors = {}
  /\ InitRouting /\ InitRouter /\ InitHandoff /\ InitExt

ApprovalNext ==
  \/ UserPrompt
  \/ Render
  \/ \E t \in TurnIds, n \in 0..MaxCalls : processGeminiStreamEvents(t, n)
  \/ \E j \in jobs : handleCompletedTools(j)
  \/ \E c \in CallIds : ToolValidate(c)
  \/ \E c \in CallIds, needsApproval \in BOOLEAN : ToolDispatch(c, needsApproval)
  \/ \E c \in CallIds, proceed \in BOOLEAN : ToolConfirm(c, proceed)
  \/ \E c \in CallIds, ok \in BOOLEAN : ToolFinish(c, ok)
  \/ \E m \in ApprovalModes : handleApprovalModeChange(m)

ApprovalSpec == ApprovalInit /\ [][ApprovalNext]_vars

LegalMoves ==
  {<<"validating", "scheduled">>, <<"scheduled", "awaiting_approval">>,
   <<"scheduled", "executing">>, <<"awaiting_approval", "executing">>,
   <<"executing", "success">>, <<"executing", "error">>}
    \cup {<<st, "cancelled">> : st \in {"validating", "scheduled",
                                         "awaiting_approval", "executing"}}

\* the user interrupts call c: the answer "cancel" to its confirmation when it
\* waits for one, else Escape
UserInterrupt(c) ==
  IF toolCalls[c].status = "awaiting_approval"
    THEN ToolConfirm(c, FALSE)
    ELSE cancelOngoingRequest /\ toolCalls'[c].aborted

RouteOptions ==
  [planModeActive : BOOLEAN, routingConfig : {"disabled", "enabled", "auto"},
   routerEnabled : BOOLEAN, hasAgents : BOOLEAN]

\* shouldRouteToAgent with the explicit agent looked at before --no-routing
shouldRouteToAgentAgentFirst(o, noRouting, agent, checkThrows) ==
  IF o.planModeActive THEN FALSE
  ELSE IF agent THEN TRUE
  ELSE IF noRouting THEN FALSE
  ELSE IF o.routingConfig = "disabled" THEN FALSE
  ELSE IF o.routingConfig = "enabled" THEN TRUE
  ELSE IF checkThrows THEN FALSE
  ELSE o.routerEnabled /\ o.hasAgents

\* shouldRouteToAgent of a submit_prompt command with agentOptions
\* {noRouting, agent}; checkThrows: getAgentExecutor throws in the smart default
shouldRouteToAgent(o, noRouting, agent, checkThrows) ==
  IF o.planModeActive THEN FALSE
  ELSE IF noRouting THEN FALSE
  ELSE IF agent THEN TRUE
  ELSE IF o.routingConfig = "disabled" THEN FALSE
  ELSE IF o.routingConfig = "enabled" THEN TRUE
  ELSE IF checkThrows THEN FALSE
  ELSE o.routerEnabled /\ o.hasAgents

\* shouldProceed whatever the agent run did
ProceedWhateverTheAgentDid(outcome) == outcome \in {"response", "throws"}

\* shouldProceed of prepareQueryForGemini after the routing attempt: the catch
\* block falls through to the main model, a response returns without it
ProceedAfterAgent(outcome) == outcome = "throws"

\* a slash command returns submit_prompt (for a todo: /todos execute <id> has
\* marked it in_progress): prepareQueryForGemini up to the agent run
SubmitPrompt(p, todo, noRouting, agent, checkThrows) ==
  /\ NoJobs
  /\ ~Dirty
  /\ routeRuns[p].stage = "none"
  /\ \A q \in PromptIds : q < p => routeRuns[q].stage # "none"
  /\ todo # 0 => todos[todo] = "pending"
  /\ todos' = IF todo = 0 THEN todos ELSE updateTodo(todos, todo, "in_progress")
  /\ routeRuns' = [routeRuns EXCEPT ![p] =
                     IF shouldRouteToAgent(routeOpts, noRouting, agent, checkThrows)
                       THEN [stage |-> "agent", attempted |-> TRUE,
                             agentResponse |-> FALSE, shouldProceed |-> FALSE]
                       ELSE [stage |-> "done", attempted |-> FALSE,
                             agentResponse |-> FALSE, shouldProceed |-> TRUE]]
  /\ UNCHANGED <<approvalVars, routeOpts, routerVars, handoffVars, extVars, deps, executionQueue, todosRef,
                 executionQueueRef, isResponding, rendered, approvalMode,
                 turnCancelledRef, abortRef, turns, nTurns, toolCalls, nCalls, jobs,
                 timers, report, sendCount, halted, nRuns>>

\* the agent run of prompt p ends: executor.execute / executeWithRouting gives
\* a response, or it (or getAgentExecutor) throws; no batch is running
AgentRun(p, outcome) ==
  /\ routeRuns[p].stage = "agent"
  /\ ~executionQueueRef.active
  /\ routeRuns' = [routeRuns EXCEPT ![p] =
                     [stage |-> "done", attempted |-> TRUE,
                      agentResponse |-> (outcome = "response"),
                      shouldProceed |-> ProceedAfterAgent(outcome)]]
  /\ todos' = IF outcome = "response" THEN AutoComplete(todos, "Completed") ELSE todos
  /\ UNCHANGED <<approvalVars, routeOpts, routerVars, handoffVars, extVars, deps, executionQueue, todosRef,
                 executionQueueRef, isResponding, rendered, approvalMode,
                 turnCancelledRef, abortRef, turns, nTurns, toolCalls, nCalls, jobs,
                 timers, report, sendCount, halted, nRuns>>

RouteInit ==
  /\ InitHook
  /\ deps = Independent
  /\ InitApproval /\ InitRouter /\ InitHandoff /\ InitExt
  /\ routeOpts \in RouteOptions
  /\ routeRuns = [p \in PromptIds |-> NoRun]

RouteNext ==
  \/ \E p \in PromptIds, todo \in 0..NumTodos, noRouting, agent, checkThrows \in BOOLEAN :
       SubmitPrompt(p, todo, noRouting, agent, checkThrows)
  \/ \E p \in PromptIds, outcome \in {"response", "throws"} : AgentRun(p, outcome)
  \/ Render

RouteSpec == RouteInit /\ [][RouteNext]_vars

DoubleJustBelowHalf ==
  {<<50, 30>>, <<90, 30>>, <<110, 30>>, <<170, 30>>, <<190, 30>>}

\* Math.round(base * (1 + priority / 100 * 0.5)) had the product no rounding
\* error: (200 * score + 100) div 200
RoundExact(base, priority) == (base * (200 + priority) + 100) \div 200

\* Math.round of the double: half up, the doubles just below a half down
MathRound(base, priority) ==
  IF <<base, priority>> \in DoubleJustBelowHalf
    THEN (base * (200 + priority)) \div 200
    ELSE (base * (200 + priority) + 100) \div 200

\* ruleScore(input, t).confidence for an input that contains kwMatches of the
\* keywords and matches reMatches of the patterns of t
ruleScore(kwMatches, reMatches, priority) ==
  LET base == kwMatches * 10 + reMatches * 15 IN
    Min({100, MathRound(base, priority)})

\* the rule confidence of agent a for the input
ruleConfidence(in, a) ==
  ruleScore(in.matches[a].keywords, in.matches[a].patterns, AgentPriority(a))

\* the first-registered agent, whatever the input
firstRegisteredAgent(in) == Min(AgentIds)

\* the first-registered of the agents with the highest rule confidence
bestAgent(in) ==
  Min({a \in AgentIds : \A b \in AgentIds : ruleConfidence(in, b) <= ruleConfidence(in, a)})

\* f_rule: the rule result, whatever the threshold
ruleResult(in) ==
  [agent |-> bestAgent(in), confidence |-> ruleConfidence(in, bestAgent(in))]

NoMatch == [agent |-> 0, confidence |-> 0]

\* f_llm: the classification of the Model Service as confidence 100 when it
\* names a registered agent
llmResult(llm) ==
  IF llm.kind = "agent" THEN [agent |-> llm.agent, confidence |-> 100] ELSE NoMatch

\* hybrid that asks the Model Service whatever the rule score
llmCalledAlways(in, strategy) == strategy \in {"llm", "hybrid"}

\* whether route calls the Model Service
llmCalled(in, strategy) ==
  \/ strategy = "llm"
  \/ strategy = "hybrid" /\ ruleResult(in).confidence < in.threshold

\* route(input, agents, strategy); llm is what the Model Service would answer:
\* an agent, something else (invalid), or nothing (the call fails)
route(in, strategy, llm) ==
  LET rule == ruleResult(in) IN
    IF strategy = "rule"
      THEN IF rule.confidence >= in.threshold THEN rule ELSE NoMatch
    ELSE IF strategy = "llm" THEN llmResult(llm)
    ELSE IF ~llmCalled(in, strategy) THEN rule
    ELSE IF llmResult(llm).confidence > rule.confidence THEN llmResult(llm)
    ELSE rule

LlmAnswers ==
  {[kind |-> "agent", agent |-> a] : a \in AgentIds}
    \cup {[kind |-> "invalid", agent |-> 0], [kind |-> "fails", agent |-> 0]}

RouterInputs ==
  [threshold : Thresholds,
   matches : [AgentIds -> [keywords : 0..MaxKeywords, patterns : 0..MaxPatterns]]]

\* one routing call
Route(strategy, llm) ==
  /\ routerOut.strategy = "none"
  /\ routerOut' =
       [strategy |-> strategy,
        agent |-> route(routerIn, strategy, llm).agent,
        confidence |-> route(routerIn, strategy, llm).confidence,
        llmCalled |-> llmCalled(routerIn, strategy),
        llm |-> IF llmCalled(routerIn, strategy) THEN llm ELSE NoDecision.llm]
  /\ UNCHANGED <<hookVars, approvalVars, routingVars, handoffVars, extVars, routerIn>>

RouterInit ==
  /\ InitHook
  /\ deps = Independent
  /\ InitApproval /\ InitRouting /\ InitHandoff /\ InitExt
  /\ routerIn \in RouterInputs
  /\ routerOut = NoDecision

RouterNext ==
  \E strategy \in {"rule", "llm", "hybrid"}, llm \in LlmAnswers : Route(strategy, llm)

RouterSpec == RouterInit /\ [][RouterNext]_vars

\* the confidence of agent a as the rule is stated:
\* min(100, round((10 keywords + 15 patterns) (1 + priority / 200)))
StatedConfidence(in, a) ==
  Min({100, RoundExact(in.matches[a].keywords * 10 + in.matches[a].patterns * 15,
                       AgentPriority(a))})

\* the first-registered of the agents with the highest stated confidence
StatedBest(in) ==
  Min({a \in AgentIds : \A b \in AgentIds : StatedConfidence(in, b) <= StatedConfidence(in, a)})

\* C16: under the rule strategy route returns the agent whose confidence
\* min(100, round((10 keywords + 15 patterns) (1 + priority / 200))) is the
\* highest, the first-registered one among equals, with that confidence, and
\* NoMatch when that confidence is below the threshold.
C16_RuleReturnsHighestConfidence ==
  routerOut.strategy = "rule"
    => IF StatedConfidence(routerIn, StatedBest(routerIn)) < routerIn.threshold
         THEN routerOut.agent = 0
         ELSE /\ routerOut.agent = StatedBest(routerIn)
              /\ routerOut.confidence = StatedConfidence(routerIn, StatedBest(routerIn))

\* C17 as stated: an input that contains a keyword of agent A and no keyword
\* of any other agent is routed to A under the rule strategy.
C17_UniqueKeywordRoutes ==
  \A a \in AgentIds :
    (/\ routerOut.strategy = "rule"
     /\ routerIn.matches[a].keywords >= 1
     /\ \A b \in AgentIds \ {a} : routerIn.matches[b].keywords = 0)
      => routerOut.agent = a

\* C17, amended: an input that contains a keyword of agent A, contains no
\* keyword and matches no pattern of any other agent, is routed to A under the
\* rule strategy when A's confidence reaches the threshold, and to no agent
\* when it does not.
C17_UniqueKeywordRoutesAboveThreshold ==
  \A a \in AgentIds :
    (/\ routerOut.strategy = "rule"
     /\ routerIn.matches[a].keywords >= 1
     /\ \A b \in AgentIds \ {a} :
          routerIn.matches[b].keywords = 0 /\ routerIn.matches[b].patterns = 0)
      => routerOut.agent =
           IF ruleConfidence(routerIn, a) >= routerIn.threshold THEN a ELSE 0

\* the input held two keywords of the second agent and nothing of the first:
\* routed to the second agent under the rule strategy
C17_Witness ==
  /\ routerOut.strategy = "rule"
  /\ routerIn.matches[2].keywords = 2 /\ routerIn.matches[2].patterns = 0
  /\ routerIn.matches[1].keywords = 0 /\ routerIn.matches[1].patterns = 0
  /\ routerOut.agent = 2

\* C18: under the hybrid strategy the Model Service is called exactly when the
\* best rule confidence is below the threshold; when it is called and answers
\* with an agent, the result of higher confidence of the two is returned, and
\* when the call fails the rule result is returned.
C18_HybridShortCircuit ==
  routerOut.strategy = "hybrid"
    => LET best == bestAgent(routerIn)
           conf == ruleConfidence(routerIn, best) IN
         /\ routerOut.llmCalled <=> conf < routerIn.threshold
         /\ ~routerOut.llmCalled
              => routerOut.agent = best /\ routerOut.confidence = conf
         /\ (routerOut.llmCalled /\ routerOut.llm.kind = "agent")
              => /\ routerOut.confidence >= conf /\ routerOut.confidence = 100
                 /\ routerOut.agent = routerOut.llm.agent
         /\ (routerOut.llmCalled /\ routerOut.llm.kind # "agent")
              => routerOut.agent = best /\ routerOut.confidence = conf

\* the rule confidence was below the threshold, the Model Service was called
\* and failed, and the rule result came back
C18_Witness ==
  /\ routerOut.strategy = "hybrid" /\ routerOut.llmCalled
  /\ routerOut.llm.kind = "fails"
  /\ routerOut.agent = 2 /\ routerOut.confidence > 0
  /\ routerOut.confidence < routerIn.threshold

\* ---------------------------------------------------------------- handoff

MAX_HANDOFF_DEPTH == 5

\* chain.includes(to) for a chain that does not list the initial agent
detectCircularHandoffAmongTargets(ch, to) == \E i \in 2..Len(ch) : ch[i] = to

\* chain.includes(to)
detectCircularHandoff(ch, to) == \E i \in 1..Len(ch) : ch[i] = to

\* a depth check that lets every depth pass
validateHandoffDepthUnbounded(d) == d >= 0

validateHandoffDepth(d) == d <= MAX_HANDOFF_DEPTH

\* requestHandoff(current, targetExists): cycle check, depth check, existence
\* check, in that order; an accepted request appends `to` and increments depth
requestHandoff(ch, d, to, targetExists) ==
  IF detectCircularHandoff(ch, to)
    THEN [outcome |-> "rejected", reason |-> "CircularHandoff", chain |-> ch, depth |-> d]
  ELSE IF ~validateHandoffDepth(d + 1)
    THEN [outcome |-> "rejected", reason |-> "DepthExceeded", chain |-> ch, depth |-> d]
  ELSE IF ~targetExists
    THEN [outcome |-> "rejected", reason |-> "UnknownAgent", chain |-> ch, depth |-> d]
  ELSE [outcome |-> "accepted", reason |-> "none", chain |-> Append(ch, to),
        depth |-> d + 1]

\* a correlationId generated anew for every request
requestCorrelationIdAlwaysFresh(cid, fresh) == fresh

\* the correlationId of a request: generated at the first handoff of a chain,
\* inherited by the later ones
requestCorrelationId(cid, fresh) == IF cid = NoCorrelationId THEN fresh ELSE cid

\* the agent that holds the task asks for a transfer to `to`: the request is
\* created, validated and, when accepted, executed (context copied when
\* includeContext is set, target agent invoked); `fresh` is what
\* createCorrelationId returns when the request needs a new id
Transfer(to, targetExists, includeContext, fresh) ==
  LET r == requestHandoff(chain, depth, to, targetExists)
      accepted == r.outcome = "accepted" IN
    /\ chain' = r.chain
    /\ depth' = r.depth
    /\ correlationId' = IF accepted
                          THEN requestCorrelationId(correlationId, fresh)
                          ELSE correlationId
    /\ handoffResult' = [outcome |-> r.outcome, reason |-> r.reason, to |-> to,
                         contextCopied |-> (accepted /\ includeContext),
                         invoked |-> IF accepted THEN to ELSE 0]
    /\ UNCHANGED <<hookVars, approvalVars, routingVars, routerVars, extVars>>

\* a transfer request that carries no context, in a session whose first
\* correlationId is 1
RequestHandoff(to, targetExists) == Transfer(to, targetExists, FALSE, 1)

\* a task in the hands of its initial agent
HandoffInit ==
  /\ InitHook
  /\ deps = Independent
  /\ InitApproval /\ InitRouting /\ InitRouter /\ InitExt
  /\ \E a \in HandoffAgents : chain = <<a>>
  /\ depth = 0
  /\ correlationId = NoCorrelationId
  /\ handoffResult = NoHandoff

HandoffNext ==
  \E to \in HandoffAgents, targetExists \in BOOLEAN : RequestHandoff(to, targetExists)

HandoffSpec == HandoffInit /\ [][HandoffNext]_vars

C20_CircularRejected ==
  [][\A to \in HandoffAgents :
       (handoffResult'.to = to /\ \E i \in 1..Len(chain) : chain[i] = to)
         => /\ handoffResult'.outcome = "rejected"
            /\ handoffResult'.reason = "CircularHandoff"
            /\ chain' = chain /\ depth' = depth]_vars

\* the first request of a chain was a transfer of the initial agent to itself
\* and was rejected as circular
C20_Witness ==
  /\ depth = 0 /\ Len(chain) = 1
  /\ handoffResult.to = chain[1]
  /\ handoffResult.outcome = "rejected"
  /\ handoffResult.reason = "CircularHandoff"

\* ---------------------------------------------------------------- handoff: side effects

\* a task in the hands of agent 1
TransferInit == InitHook /\ deps = Independent /\ InitAux

TransferNext ==
  \E to \in HandoffAgents, targetExists \in BOOLEAN, includeContext \in BOOLEAN,
     fresh \in CorrelationIds :
    Transfer(to, targetExists, includeContext, fresh)

TransferSpec == TransferInit /\ [][TransferNext]_vars

\* C21: a rejected handoff (CircularHandoff, DepthExceeded or UnknownAgent)
\* leaves chain, depth and correlationId as they were, copies no context and
\* invokes no agent; an accepted handoff appends the target to the chain,
\* adds one to depth and keeps the correlationId of the chain (which it
\* generates when the chain has none yet).
C21_RejectedHandoffChangesNothing ==
  [][IF handoffResult'.outcome = "rejected"
       THEN /\ handoffResult'.reason \in
                 {"CircularHandoff", "DepthExceeded", "UnknownAgent"}
            /\ chain' = chain /\ depth' = depth /\ correlationId' = correlationId
            /\ ~handoffResult'.contextCopied
            /\ handoffResult'.invoked = 0
       ELSE /\ handoffResult'.outcome = "accepted"
            /\ chain' = Append(chain, handoffResult'.to)
            /\ depth' = depth + 1
            /\ handoffResult'.invoked = handoffResult'.to
            /\ (correlationId # NoCorrelationId => correlationId' = correlationId)
            /\ (correlationId = NoCorrelationId =>
                  correlationId' \in CorrelationIds)]_vars

\* two transfers were accepted under one correlationId, and a third, to an
\* agent that is not registered, was rejected
C21_Witness ==
  /\ depth = 2 /\ Len(chain) = 3
  /\ correlationId # NoCorrelationId
  /\ handoffResult.outcome = "rejected"
  /\ handoffResult.reason = "UnknownAgent"

\* ---------------------------------------------------------------- workflow executor

\* a StepResult that is written: success, error or skipped
StepFinal(st) == st \in {"success", "error", "skipped"}

\* the steps of item i: the members of the parallel group, or the step itself
MembersOf(def, i) == IF i = def.groupAt THEN MemberIds ELSE {0}

\* WorkflowDefinitions: sequential steps with at most one parallel group, the
\* group's error_handling (on_error, min_success) and the workflow's on_error
WorkflowDefinitions ==
  {def \in [groupAt : 0..NumSteps,
            minSuccess : {NoMinSuccess} \cup (0..MaxMembers),
            groupOnError : {"none", "abort", "continue"},
            onError : {"abort", "continue"}] :
     def.groupAt = 0 => def.minSuccess = NoMinSuccess /\ def.groupOnError = "none"}

\* Promise.race in place of Promise.allSettled: one settled member is enough
oneSettled(res, members) == \E m \in members : StepFinal(res[m])

\* Promise.allSettled(group.parallel.map(execStep)); for a sequential step,
\* the await of its execStep
allSettled(res, members) == \A m \in members : StepFinal(res[m])

\* results.filter(r => r.status === 'fulfilled').length
success(res) == Cardinality({m \in MemberIds : res[m] = "success"})

\* a group without min_success is content with one success
minSuccessOrOne(def) == IF def.minSuccess = NoMinSuccess THEN 1 ELSE def.minSuccess

\* group.error_handling?.min_success ?? group.parallel.length
minSuccess(def) ==
  IF def.minSuccess = NoMinSuccess THEN MaxMembers ELSE def.minSuccess

\* runParallel throws: success < minSuccess and on_error is not 'continue'
runParallelThrows(def, res) ==
  success(res) < minSuccess(def) /\ def.groupOnError # "continue"

\* a failed sequential step that never stops the run
stepFailsNever(def, res) == FALSE

\* a failed sequential step under the abort policy
stepFails(def, res) == res[0] = "error" /\ def.onError # "continue"

\* the item the executor awaited ends the run
Fatal(def, i, res) ==
  IF i = def.groupAt THEN runParallelThrows(def, res) ELSE stepFails(def, res)

\* the previous step was dispatched (not: has settled)
awaitedWithoutWaiting(def, at, results) == TRUE

\* the executor has awaited the item it is at
awaited(def, at, results) ==
  at > 0 => allSettled(results[at], MembersOf(def, at))

\* item i is dispatched: every member of a group at once; a sequential step
\* runs when its `when` condition holds and is skipped when it does not
dispatch(def, i, whenHolds) ==
  [m \in 0..MaxMembers |->
     IF m \notin MembersOf(def, i) THEN "none"
     ELSE IF i = def.groupAt \/ whenHolds THEN "running"
     ELSE "skipped"]

\* one turn of the executor's loop: it has awaited the item it is at, ends
\* the run as Failed when that item is fatal and as Completed after the last
\* item, and dispatches the next item otherwise
ExecutorStep(whenHolds) ==
  /\ wfRun.status \in {"Pending", "Running"}
  /\ awaited(workflow, wfRun.at, stepResults)
  /\ IF wfRun.at > 0 /\ Fatal(workflow, wfRun.at, stepResults[wfRun.at])
       THEN /\ wfRun' = [wfRun EXCEPT !.status = "Failed"]
            /\ UNCHANGED stepResults
       ELSE IF wfRun.at = NumSteps
         THEN /\ wfRun' = [wfRun EXCEPT !.status = "Completed"]
              /\ UNCHANGED stepResults
         ELSE /\ wfRun' = [status |-> "Running", at |-> wfRun.at + 1]
              /\ stepResults' = [stepResults EXCEPT ![wfRun.at + 1] =
                                   dispatch(workflow, wfRun.at + 1, whenHolds)]
  /\ UNCHANGED <<hookVars, approvalVars, routingVars, routerVars, handoffVars,
                 toolingVars, workflow>>

\* execStep of step (i, m) settles, after its retries: fulfilled or rejected
execStepSettles(i, m, ok) ==
  /\ wfRun.status = "Running"
  /\ stepResults[i][m] = "running"
  /\ stepResults' = [stepResults EXCEPT ![i][m] = IF ok THEN "success" ELSE "error"]
  /\ UNCHANGED <<hookVars, approvalVars, routingVars, routerVars, handoffVars,
                 toolingVars, workflow, wfRun>>

\* the workflow-level timeout: the run is Aborted, the steps still running
\* are abandoned, the StepResults written so far stay
WorkflowTimeout ==
  /\ wfRun.status = "Running"
  /\ wfRun' = [wfRun EXCEPT !.status = "Aborted"]
  /\ UNCHANGED <<hookVars, approvalVars, routingVars, routerVars, handoffVars,
                 toolingVars, workflow, stepResults>>

WorkflowInit ==
  /\ InitHook
  /\ deps = Independent
  /\ InitApproval /\ InitRouting /\ InitRouter /\ InitHandoff /\ InitTooling
  /\ workflow \in WorkflowDefinitions
  /\ wfRun = [status |-> "Pending", at |-> 0]
  /\ stepResults = NoResults

WorkflowNext ==
  \/ \E whenHolds \in BOOLEAN : ExecutorStep(whenHolds)
  \/ \E i \in StepIds, m \in 0..MaxMembers, ok \in BOOLEAN : execStepSettles(i, m, ok)
  \/ WorkflowTimeout

WorkflowSpec == WorkflowInit /\ [][WorkflowNext]_vars

\* the executor moves on from the parallel group, all members settled
LeavesGroup ==
  /\ wfRun.status = "Running"
  /\ workflow.groupAt # 0 /\ wfRun.at = workflow.groupAt
  /\ \A m \in MemberIds : StepFinal(stepResults[wfRun.at][m])
  /\ wfRun' # wfRun
  /\ wfRun'.status # "Aborted"

\* successful members of the group
Successes ==
  Cardinality({m \in MemberIds : stepResults[workflow.groupAt][m] = "success"})

\* minSuccess as stated: the configured value, the group size when left out
StatedMinSuccess ==
  IF workflow.minSuccess = NoMinSuccess
    THEN Cardinality(MemberIds)
    ELSE workflow.minSuccess

\* C22: a parallel group succeeds when at least minSuccess members succeeded
\* (minSuccess defaults to the group size); with fewer successes the workflow
\* fails under onError = abort, and under onError = continue it goes on with
\* the StepResults of the group as they are, failed members having status
\* error.
C22_ParallelGroupThreshold ==
  [][LeavesGroup =>
       /\ Successes >= StatedMinSuccess => wfRun'.status # "Failed"
       /\ (Successes < StatedMinSuccess /\ workflow.groupOnError = "abort")
            => wfRun'.status = "Failed"
       /\ (Successes < StatedMinSuccess /\ workflow.groupOnError = "continue")
            => /\ wfRun'.status \in {"Running", "Completed"}
               /\ stepResults'[workflow.groupAt] = stepResults[workflow.groupAt]
               /\ \A m \in MemberIds :
                    stepResults'[workflow.groupAt][m] \in {"success", "error"}]_vars

\* a group with minSuccess = 1 in which exactly one of the members succeeded:
\* the executor went on to the step after it
C22_Witness ==
  /\ workflow.groupAt = 1 /\ workflow.minSuccess = 1
  /\ workflow.groupOnError = "abort"
  /\ Cardinality({m \in MemberIds : stepResults[1][m] = "success"}) = 1
  /\ \E m \in MemberIds : stepResults[1][m] = "error"
  /\ wfRun.status = "Running" /\ wfRun.at = 2

\* sequential step i gets its first status: it starts running or is skipped
Reached(i) ==
  /\ i # workflow.groupAt
  /\ stepResults[i][0] = "none"
  /\ stepResults'[i][0] # "none"

\* a step reached has every earlier step final and every later one untouched
InDeclarationOrder ==
  \A i \in StepIds :
    Reached(i)
      => /\ stepResults'[i][0] \in {"running", "skipped"}
         /\ \A j \in StepIds :
              \A m \in MembersOf(workflow, j) :
                /\ j < i => StepFinal(stepResults[j][m])
                /\ j > i => stepResults'[j][m] = "none"

\* a skipped step never ran and stays skipped
SkippedNeverRuns ==
  \A i \in StepIds :
    /\ stepResults[i][0] = "skipped" => stepResults'[i][0] = "skipped"
    /\ stepResults'[i][0] = "skipped" => stepResults[i][0] \in {"none", "skipped"}

\* the executor goes on after a skipped step
ProceedsAfterSkip ==
  (wfRun.status = "Running" /\ wfRun.at > 0 /\ stepResults[wfRun.at][0] = "skipped")
    => /\ ENABLED ExecutorStep(TRUE)
       /\ (wfRun' # wfRun /\ wfRun'.status # "Aborted")
            => IF wfRun.at = NumSteps
                 THEN wfRun'.status = "Completed"
                 ELSE /\ wfRun'.status = "Running"
                      /\ wfRun'.at = wfRun.at + 1
                      /\ stepResults'[wfRun.at + 1] # stepResults[wfRun.at + 1]

\* C23: sequential steps start in declaration order, each only after every
\* step before it has a final StepResult (success, error or skipped); a step
\* whose `when` condition is false gets status skipped without ever running,
\* keeps that status, and the executor goes on to the next step.
C23_SequentialOrder ==
  [][InDeclarationOrder /\ SkippedNeverRuns /\ ProceedsAfterSkip]_vars

\* three sequential steps: the first succeeded, the second was skipped and
\* the third is running
C23_Witness ==
  /\ workflow.groupAt = 0
  /\ stepResults[1][0] = "success"
  /\ stepResults[2][0] = "skipped"
  /\ stepResults[3][0] = "running"
  /\ wfRun.status = "Running" /\ wfRun.at = 3

\* the items declared after the parallel group
AfterGroup == {j \in StepIds : workflow.groupAt # 0 /\ j > workflow.groupAt}

\* C24: a step declared after a parallel group is started (and so reads the
\* group's results) only when every member of the group has settled, as a
\* success or as a failure, whatever the order in which the members settle.
C24_GroupSettlesBeforeNextStep ==
  \A j \in AfterGroup :
    (\E m \in MembersOf(workflow, j) : stepResults[j][m] # "none")
      => \A g \in MemberIds : stepResults[workflow.groupAt][g] \in {"success", "error"}

\* the second member of the group failed, the first succeeded, and the step
\* after the group is running
C24_Witness ==
  /\ workflow.groupAt = 1
  /\ stepResults[1][1] = "success"
  /\ stepResults[1][MaxMembers] = "error"
  /\ stepResults[2][0] = "running"

\* ---------------------------------------------------------------- workflow executor: abort policy

\* steps settle (retries are bounded) and the executor's loop goes on
WorkflowLiveSpec ==
  /\ WorkflowSpec
  /\ WF_vars(\E whenHolds \in BOOLEAN : ExecutorStep(whenHolds))
  /\ WF_vars(\E i \in StepIds, m \in 0..MaxMembers, ok \in BOOLEAN :
               execStepSettles(i, m, ok))

\* failed members of the group
Failures ==
  Cardinality({m \in MemberIds : stepResults[workflow.groupAt][m] = "error"})

\* a step error that is fatal under the abort policy: a failed sequential
\* step, or failed members that leave fewer than minSuccess possible successes
FatalError ==
  \/ /\ workflow.onError = "abort"
     /\ \E i \in StepIds : i # workflow.groupAt /\ stepResults[i][0] = "error"
  \/ /\ workflow.groupAt # 0
     /\ workflow.groupOnError = "abort"
     /\ Cardinality(MemberIds) - Failures < StatedMinSuccess

\* nothing is dispatched after a fatal error, and the executor's next step
\* ends the run as Failed
NoDispatchAfterFatal ==
  FatalError
    => /\ \A i \in StepIds : \A m \in 0..MaxMembers :
            stepResults[i][m] = "none" => stepResults'[i][m] = "none"
       /\ (wfRun' # wfRun /\ wfRun'.status # "Aborted") => wfRun'.status = "Failed"

\* members still running when the group can no longer succeed may settle
\* either way, the run does not fail before they have, and no StepResult
\* that was written is changed or dropped
SiblingsFinish ==
  /\ \A m \in MemberIds :
       (/\ FatalError /\ wfRun.status = "Running" /\ workflow.groupAt # 0
        /\ stepResults[workflow.groupAt][m] = "running")
         => /\ ENABLED execStepSettles(workflow.groupAt, m, TRUE)
            /\ ENABLED execStepSettles(workflow.groupAt, m, FALSE)
            /\ wfRun'.status # "Failed"
  /\ \A i \in StepIds : \A m \in 0..MaxMembers :
       StepFinal(stepResults[i][m]) => stepResults'[i][m] = stepResults[i][m]

RECURSIVE ascending(_)
ascending(S) == IF S = {} THEN <<>> ELSE <<Min(S)>> \o ascending(S \ {Min(S)})

\* edges [u, v]: todo v depends on todo u; todo by todo, dependency by dependency
RECURSIVE edgesOf(_, _)
edgesOf(g, v) ==
  IF v > NumTodos THEN <<>>
  ELSE LET ds == ascending(g[v]) IN
         [i \in 1..Len(ds) |-> <<ds[i], v>>] \o edgesOf(g, v + 1)

\* for (const [x,y] of edges) if (x === u) { indeg[y]--; if (indeg[y] === 0) q.push(y) }
RECURSIVE relax(_, _, _, _)
relax(u, es, indeg, q) ==
  IF es = <<>> THEN [indeg |-> indeg, q |-> q]
  ELSE LET x == Head(es)[1]
           y == Head(es)[2]
       IN IF x = u
            THEN LET lowered == [indeg EXCEPT ![y] = indeg[y] - 1] IN
                   relax(u, Tail(es), lowered,
                         IF lowered[y] = 0 THEN Append(q, y) ELSE q)
            ELSE relax(u, Tail(es), indeg, q)

\* while (q.length) { const u = q.shift(); order.push(u); ... }
RECURSIVE kahn(_, _, _, _)
kahn(es, indeg, q, order) ==
  IF q = <<>> THEN order
  ELSE LET r == relax(Head(q), es, indeg, Tail(q)) IN
         kahn(es, r.indeg, r.q, Append(order, Head(q)))

\* a check that never finds the order too short
cyclicDependencyNever(order) == FALSE

\* if (order.length !== nodes.length) throw new Error('Cyclic dependency')
cyclicDependency(order) == Len(order) # NumTodos

\* topoOrder(nodes, edges) on the todos and their dependencies
topologicalOrder(g) ==
  LET es == edgesOf(g, 1)
      indeg == [n \in TodoIds |-> Cardinality({i \in 1..Len(es) : es[i][2] = n})]
      q == ascending({n \in TodoIds : indeg[n] = 0})
      order == kahn(es, indeg, q, <<>>)
  IN IF cyclicDependency(order)
       THEN [outcome |-> "CyclicDependencyError", todo |-> 0, order |-> order]
       ELSE [outcome |-> "ordered", todo |-> 0, order |-> order]

\* the validation pass of a batch run: order the todos, touch nothing
ValidateOrder ==
  /\ NoJobs
  /\ ~Dirty
  /\ ~executionQueue.active
  /\ todoOutcome.outcome = "none"
  /\ todoOutcome' = topologicalOrder(deps)
  /\ UNCHANGED <<hookVars, approvalVars, routingVars, routerVars, handoffVars,
                 workflowVars, adapterCall, pack, display>>

\* the batch run proper starts once the order is known
OrderedExecuteAll(mode) ==
  /\ todoOutcome.outcome = "ordered"
  /\ ExecuteAll(mode)

\* every dependency graph over the todo ids, cyclic ones included
AllGraphs == [TodoIds -> SUBSET TodoIds]

TopoInit == deps \in AllGraphs /\ InitSession /\ InitAux

TopoNext ==
  \/ ValidateOrder
  \/ \E mode \in Modes : OrderedExecuteAll(mode)
  \/ Render

TopoSpec == TopoInit /\ [][TopoNext]_vars

\* a set of todos each of which depends on another one of the set
HasCycle(g) == \E S \in SUBSET TodoIds \ {{}} : \A n \in S : g[n] \cap S # {}

IsPermutation(order) ==
  /\ Len(order) = NumTodos
  /\ {order[i] : i \in 1..Len(order)} = TodoIds

DependenciesFirst(g, order) ==
  \A i, j \in 1..Len(order) : order[j] \in g[order[i]] => j < i

TopologicalOrderAnswer ==
  /\ todoOutcome.outcome = "CyclicDependencyError" <=> HasCycle(deps)
  /\ todoOutcome.outcome = "ordered" =>
       IsPermutation(todoOutcome.order) /\ DependenciesFirst(deps, todoOutcome.order)
  /\ todoOutcome.outcome = "CyclicDependencyError" =>
       nTurns = 0 /\ todos = [t \in TodoIds |-> "pending"]

RaisedBeforeDispatch ==
  (todos' # todos \/ \E t \in TodoIds : Dispatches(t)) =>
    todoOutcome.outcome = "ordered" /\ ~HasCycle(deps)

\* C26: once the todos are ordered, CyclicDependencyError is the answer exactly
\* when the dependency graph has a cycle; otherwise the answer is a permutation
\* of all todos with every todo after its dependencies; and no todo changes
\* status or is dispatched unless the order was found.
C26_TopologicalOrder ==
  [](todoOutcome.outcome # "none" => TopologicalOrderAnswer)
    /\ [][RaisedBeforeDispatch]_vars

\* a chain 3 -> 2 -> 1 ordered against the todo list, and its first todo started
C26_Witness ==
  /\ deps = [t \in TodoIds |-> IF t = NumTodos THEN {} ELSE {t + 1}]
  /\ todoOutcome.outcome = "ordered"
  /\ todoOutcome.order[1] = NumTodos
  /\ todos[NumTodos] = "in_progress"

\* ---------------------------------------------------------------- todos: single execution

\* a check that finds every dependency completed
unmetDependenciesNone(td, t) == {}

\* the dependencies of todo t that are not completed
unmetDependencies(td, t) == {d \in deps[t] : td[d] # "completed"}

\* /todos execute <id>: verify the dependencies, then mark the todo
\* in_progress and submit its prompt
ExecuteTodo(t) ==
  /\ NoJobs
  /\ ~Dirty
  /\ rendered.streamingState = "Idle"
  /\ ~executionQueue.active
  /\ todos[t] = "pending"
  /\ IF unmetDependencies(todos, t) # {}
       THEN /\ todoOutcome' = [outcome |-> "UnmetDependency", todo |-> t, order |-> <<>>]
            /\ UNCHANGED hookVars
       ELSE /\ todoOutcome' = [outcome |-> "executing", todo |-> t, order |-> <<>>]
            /\ todos' = updateTodo(todos, t, "in_progress")
            /\ StartTurn("prompt", t)
            /\ UNCHANGED <<deps, executionQueue, todosRef, executionQueueRef, rendered,
                           approvalMode, toolCalls, nCalls, jobs, timers, report,
                           sendCount, halted, nRuns>>
  /\ UNCHANGED <<approvalVars, routingVars, routerVars, handoffVars, workflowVars,
                 adapterCall, pack, display>>

\* a session on a plan with dependencies, its todos executed one at a time
ExecuteInit == deps \in DependentPlans /\ InitSession /\ InitAux

ExecuteNext ==
  \/ \E t \in TodoIds : ExecuteTodo(t)
  \/ Render
  \/ cancelOngoingRequest
  \/ \E t \in TurnIds : handleErrorEvent(t)
  \/ \E t \in TurnIds : handleUserCancelledEvent(t)
  \/ \E t \in TurnIds : processGeminiStreamEvents(t, 0)
  \/ \E t \in TurnIds : StreamThrows(t)

ExecuteSpec == ExecuteInit /\ [][ExecuteNext]_vars

\* the command on todo t has just answered
Answers(t) == todoOutcome' # todoOutcome /\ todoOutcome'.todo = t

FailsFast(t) ==
  /\ todoOutcome'.outcome = "UnmetDependency"
  /\ todos' = todos
  /\ ~Dispatches(t)

\* C27: a single todo executed while one of its dependencies is not completed
\* is answered UnmetDependency, no todo changes status and no prompt is sent;
\* executed with every dependency completed it becomes in_progress.
C27_UnmetDependencyFailsFast ==
  [][\A t \in TodoIds :
       Answers(t) =>
         IF \E d \in deps[t] : todos[d] # "completed"
           THEN FailsFast(t)
           ELSE todos'[t] = "in_progress" /\ Dispatches(t)]_vars

\* todo 2 is refused while todo 1, which it depends on, is in progress
C27_Witness ==
  /\ todoOutcome.outcome = "UnmetDependency"
  /\ todoOutcome.todo = 2
  /\ 1 \in deps[2]
  /\ todos[1] = "in_progress"
  /\ todos[2] = "pending"

\* ---------------------------------------------------------------- CustomAdapter

\* UnifiedRequest: model and messages, maxTokens when the caller gives one
Requests ==
  [model : {"glm-4.6"}, messages : {"hello"}, maxTokens : {"absent", "42", "512"}]

\* options.requestBody of the model configuration
RequestBodies ==
  {b \in [BodyKeys -> {"absent", "other", "42", "512", "enabled", "disabled"}] :
     /\ b["model"] \in {"absent", "other"}
     /\ b["messages"] \in {"absent", "other"}
     /\ b["max_tokens"] \in {"absent", "42", "512"}
     /\ b["thinking"] \in {"absent", "enabled", "disabled"}}

\* the fields derived from the request itself
fromRequest(request) ==
  [k \in BodyKeys |->
     CASE k = "model" -> request.model
       [] k = "messages" -> request.messages
       [] k = "max_tokens" -> request.maxTokens
       [] OTHER -> "absent"]

\* a merge in which options.requestBody has the last word
mergeOverriding(body, requestBody) ==
  [k \in BodyKeys |-> IF requestBody[k] # "absent" THEN requestBody[k] ELSE body[k]]

\* merge options.requestBody without overriding existing fields
mergeRequestBody(body, requestBody) ==
  [k \in BodyKeys |-> IF body[k] # "absent" THEN body[k] ELSE requestBody[k]]

\* CustomAdapter.convertRequest(request)
convertRequest(request, requestBody) ==
  mergeRequestBody(fromRequest(request), requestBody)

ConvertRequest ==
  /\ ~adapterCall.done
  /\ adapterCall' =
       [adapterCall EXCEPT
          !.converted = convertRequest(adapterCall.request, adapterCall.requestBody),
          !.done = TRUE]
  /\ UNCHANGED <<hookVars, approvalVars, routingVars, routerVars, handoffVars,
                 workflowVars, todoOutcome, pack, display>>

\* the adapter is used again, with another request
NextRequest(request) ==
  /\ adapterCall.done
  /\ request # adapterCall.request
  /\ adapterCall' =
       [adapterCall EXCEPT !.request = request, !.converted = NoBody, !.done = FALSE]
  /\ UNCHANGED <<hookVars, approvalVars, routingVars, routerVars, handoffVars,
                 workflowVars, todoOutcome, pack, display>>

AdapterInit ==
  /\ InitHook /\ deps = Independent
  /\ InitApproval /\ InitRouting /\ InitRouter /\ InitHandoff /\ InitWorkflow
  /\ todoOutcome = NoOutcome
  /\ pack = NoPack
  /\ display = NoDisplay
  /\ adapterCall \in [request : Requests, requestBody : RequestBodies,
                       converted : {NoBody}, done : {FALSE}]

AdapterNext ==
  \/ ConvertRequest
  \/ \E request \in Requests : NextRequest(request)

AdapterSpec == AdapterInit /\ [][AdapterNext]_vars

PackageFiles ==
  [dependencies : {"absent", "empty", "some"},
   devDependencies : {"absent", "empty", "some"},
   optionalDependencies : {"absent", "empty", "some"},
   layout : {"written", "stringified"}]

exists(file) == file.layout # "absent"

\* a backup step that keeps the backup already there
backupKeepingFirst(file, backup) == IF exists(backup) THEN backup ELSE file

\* fs.copyFileSync(packageJsonPath, backupPath), a backup being there or not
backupPackageJson(file, backup) == file

\* productionPackageJson, as written by JSON.stringify(..., null, 2)
productionPackageJson(file) ==
  [dependencies |-> "empty", devDependencies |-> "empty",
   optionalDependencies |->
     IF file.optionalDependencies = "absent" THEN "empty"
     ELSE file.optionalDependencies,
   layout |-> "stringified"]

\* npm run pack:prepare (prepare-for-pack.js)
PackPrepare ==
  /\ pack.prepares < MaxPrepares
  /\ pack' = [pack EXCEPT
                !.backup = backupPackageJson(pack.packageJson, pack.backup),
                !.packageJson = productionPackageJson(pack.packageJson),
                !.prepares = pack.prepares + 1,
                !.last = "prepare"]
  /\ UNCHANGED <<hookVars, approvalVars, routingVars, routerVars, handoffVars,
                 workflowVars, todoOutcome, adapterCall, display>>

\* npm run pack:restore (restore-package.js): exit 1 without a backup, else
\* copy it back and leave it where it is
PackRestore ==
  /\ pack' = IF exists(pack.backup)
               THEN [pack EXCEPT !.packageJson = pack.backup, !.prepares = 0,
                                 !.last = "restore"]
               ELSE [pack EXCEPT !.last = "no backup"]
  /\ UNCHANGED <<hookVars, approvalVars, routingVars, routerVars, handoffVars,
                 workflowVars, todoOutcome, adapterCall, display>>

PackInit ==
  /\ InitHook /\ deps = Independent
  /\ InitApproval /\ InitRouting /\ InitRouter /\ InitHandoff /\ InitWorkflow
  /\ todoOutcome = NoOutcome
  /\ adapterCall = NoAdapterCall
  /\ display = NoDisplay
  /\ \E file \in PackageFiles :
       pack = [original |-> file, packageJson |-> file, backup |-> NoFile,
               prepares |-> 0, last |-> "none"]

PackNext ==
  \/ PackPrepare
  \/ PackRestore

PackSpec == PackInit /\ [][PackNext]_vars

\* C29: once pack:prepare has run, package.json.backup holds the original
\* package.json, and after a pack:restore package.json is the original again,
\* dependencies and devDependencies included, however often pack:prepare ran.
C29_RestoreGivesOriginal ==
  /\ pack.prepares > 0 => pack.backup = pack.original
  /\ pack.last = "restore" => pack.packageJson = pack.original

\* ---------------------------------------------------------------- approval mode: failed confirmations

ApprovalThrowNext ==
  \/ ApprovalNext
  \/ \E m \in ApprovalModes, throwing \in SUBSET CallIds \ {{}} :
       handleApprovalModeChangeThrowing(m, throwing)

ApprovalThrowSpec == ApprovalInit /\ [][ApprovalThrowNext]_vars

\* what a switch of the approval mode leaves of a call that waits for approval
AfterSwitch(c) ==
  IF approvalMode' = "DEFAULT" THEN "awaiting_approval"
  ELSE IF approvalMode' = "AUTO_EDIT" /\ ~editTool[c] THEN "awaiting_approval"
  ELSE IF c \in confirmErrors' THEN "awaiting_approval"
  ELSE "executing"

\* C30: a switch to AUTO_EDIT confirms the awaiting_approval calls of the edit
\* tools only and leaves every other one in awaiting_approval; a switch to
\* DEFAULT confirms nothing; and every selected call whose own confirmation
\* did not fail is confirmed, whichever other confirmations failed.
C30_AutoEditConfirmsEditToolsOnly ==
  [][approvalMode' # approvalMode =>
       /\ \A c \in CallIds :
            toolCalls[c].status = "awaiting_approval" =>
              toolCalls'[c].status = AfterSwitch(c)
       /\ confirmErrors' \subseteq
            {c \in CallIds : toolCalls[c].status = "awaiting_approval"}
       /\ approvalMode' = "DEFAULT" => autoApproved' = autoApproved]_vars

\* a switch to AUTO_EDIT with two edits waiting: the confirmation of the first
\* failed, the second was confirmed all the same
C30_Witness ==
  /\ approvalMode = "AUTO_EDIT"
  /\ editTool[1] /\ editTool[2]
  /\ confirmErrors = {1} /\ toolCalls[1].status = "awaiting_approval"
  /\ 2 \in autoApproved /\ toolCalls[2].status = "executing"

\* ---------------------------------------------------------------- responses: cancelled batches

\* the completion of batch b is handled, by a callback that saw isResponding false
Handles(b) ==
  /\ \E c \in BatchOf(toolCalls, b) : ~toolCalls[c].notified /\ toolCalls'[c].notified
  /\ ~rendered.isResponding

AllToolsCancelled(b) ==
  /\ geminiTools(BatchOf(toolCalls, b)) # {}
  /\ \A c \in geminiTools(BatchOf(toolCalls, b)) : toolCalls[c].status = "cancelled"

AutoCompletes(t) ==
  /\ ~executionQueueRef.active
  /\ todos[t] = "in_progress"
  /\ todos'[t] = "completed"

\* a turn ends on which neither an error event nor a cancellation was reported
TurnCompletes ==
  \E u \in TurnIds :
    turns[u].phase = "open" /\ ~turns[u].aborted /\ turns'[u].phase = "ended"

\* a turn ends, whatever its stream reported
TurnEnds ==
  \E u \in TurnIds : turns[u].phase \in {"open", "closing"} /\ turns'[u].phase = "ended"

\* the auto-completion happens at the end of a turn, on the only todo in
\* progress, with no ExecutionQueue active
OnlyTodoInProgress(t) ==
  /\ TurnEnds
  /\ InProgress(todosRef) = {t}
  /\ ~executionQueue.active

\* C32: outside batch mode a todo in progress is marked completed only at the
\* end of a turn that completed without an error event or a user
\* cancellation, and only when it is the single todo in progress and no
\* ExecutionQueue is active.
C32_AutoCompleteOnlyAfterSuccess ==
  [][\A t \in TodoIds : AutoCompletes(t) => TurnCompletes /\ OnlyTodoInProgress(t)]_vars

\* ------------------------------------------------------ routing: the decision

\* the options of the session with three views of Plan mode: planModeActive as
\* prepareQueryForGemini closed over it, commandPlanMode as the command context
\* of handleSlashCommand holds it (context.session.planModeActive), and
\* sessionPlanMode, the state that setPlanModeActive sets
SessionOptions ==
  [planModeActive : BOOLEAN, commandPlanMode : BOOLEAN, sessionPlanMode : BOOLEAN,
   routingConfig : {"disabled", "enabled", "auto"},
   routerEnabled : BOOLEAN, hasAgents : BOOLEAN]

Undecided ==
  [stage |-> "none", attempted |-> FALSE, command |-> "none", noRouting |-> FALSE,
   agent |-> FALSE, checkThrows |-> FALSE, planModeActive |-> FALSE]

\* the routing step of prepareQueryForGemini on the agentOptions a command
\* returned, with the inputs of the decision kept
decision(command, noRouting, agent, checkThrows) ==
  [stage |-> IF shouldRouteToAgent(routeOpts, noRouting, agent, checkThrows)
               THEN "agent" ELSE "done",
   attempted |-> shouldRouteToAgent(routeOpts, noRouting, agent, checkThrows),
   command |-> command, noRouting |-> noRouting, agent |-> agent,
   checkThrows |-> checkThrows, planModeActive |-> routeOpts.planModeActive]

\* a slash command other than /plan create returns submit_prompt
SubmitCommand(p, noRouting, agent, checkThrows) ==
  /\ routeRuns[p].stage = "none"
  /\ \A q \in PromptIds : q < p => routeRuns[q].stage # "none"
  /\ routeRuns' = [routeRuns EXCEPT ![p] = decision("submit", noRouting, agent, checkThrows)]
  /\ UNCHANGED <<approvalVars, routeOpts, routerVars, handoffVars, extVars, hookVars>>

\* /plan create [--agent x] [--no-routing]: wasActive is the Plan mode of the
\* command context; without it the command activates Plan mode and forces
\* noRouting; it returns submit_prompt, and the routing step runs in the
\* prepareQueryForGemini that awaited the command
PlanCreate(p, agentFlag, noRoutingFlag, checkThrows) ==
  /\ routeRuns[p].stage = "none"
  /\ \A q \in PromptIds : q < p => routeRuns[q].stage # "none"
  /\ routeOpts' = IF routeOpts.commandPlanMode THEN routeOpts
                  ELSE [routeOpts EXCEPT !.sessionPlanMode = TRUE]
  /\ routeRuns' = [routeRuns EXCEPT ![p] =
                     decision("plan create",
                              noRoutingFlag \/ ~routeOpts.commandPlanMode,
                              agentFlag, checkThrows)]
  /\ UNCHANGED <<approvalVars, routerVars, handoffVars, extVars, hookVars>>

\* /plan quit with Plan mode active in the command context: setPlanModeActive(false)
PlanExit ==
  /\ routeOpts.commandPlanMode
  /\ routeOpts' = [routeOpts EXCEPT !.sessionPlanMode = FALSE]
  /\ UNCHANGED <<approvalVars, routeRuns, routerVars, handoffVars, extVars, hookVars>>

\* a render at which handleSlashCommand is made again with the command context
\* of that render; it is a dependency of prepareQueryForGemini, which is made
\* again with it
RecreateHandleSlashCommand ==
  /\ \/ routeOpts.commandPlanMode # routeOpts.sessionPlanMode
     \/ routeOpts.planModeActive # routeOpts.sessionPlanMode
  /\ routeOpts' = [routeOpts EXCEPT !.commandPlanMode = routeOpts.sessionPlanMode,
                                    !.planModeActive = routeOpts.sessionPlanMode]
  /\ UNCHANGED <<approvalVars, routeRuns, routerVars, handoffVars, extVars, hookVars>>

\* a render at which another dependency of prepareQueryForGemini changed
\* (shellModeActive, say): the callback is made again and closes over the
\* planModeActive of that render; planModeActive itself is not in the
\* dependency list, so a change of Plan mode alone leaves the callback as it is
RecreatePrepareQuery ==
  /\ routeOpts.planModeActive # routeOpts.sessionPlanMode
  /\ routeOpts' = [routeOpts EXCEPT !.planModeActive = routeOpts.sessionPlanMode]
  /\ UNCHANGED <<approvalVars, routeRuns, routerVars, handoffVars, extVars, hookVars>>

DecisionInit ==
  /\ InitHook
  /\ deps = Independent
  /\ InitApproval /\ InitRouter /\ InitHandoff /\ InitExt
  /\ routeOpts \in SessionOptions
  /\ routeOpts.planModeActive = routeOpts.sessionPlanMode
  /\ routeOpts.commandPlanMode = routeOpts.sessionPlanMode
  /\ routeRuns = [p \in PromptIds |-> Undecided]

DecisionNext ==
  \/ \E p \in PromptIds, noRouting, agent, checkThrows \in BOOLEAN :
       SubmitCommand(p, noRouting, agent, checkThrows)
  \/ \E p \in PromptIds, agentFlag, noRoutingFlag, checkThrows \in BOOLEAN :
       PlanCreate(p, agentFlag, noRoutingFlag, checkThrows)
  \/ PlanExit
  \/ RecreateHandleSlashCommand
  \/ RecreatePrepareQuery

DecisionSpec == DecisionInit /\ [][DecisionNext]_vars

\* the precedence as a single condition on the inputs of a decision
RoutedByPrecedence(r) ==
  /\ ~r.planModeActive
  /\ ~r.noRouting
  /\ \/ r.agent
     \/ /\ routeOpts.routingConfig # "disabled"
        /\ \/ routeOpts.routingConfig = "enabled"
           \/ ~r.checkThrows /\ routeOpts.routerEnabled /\ routeOpts.hasAgents

\* C33: the routing decision follows a fixed precedence: Plan mode active, never
\* route; otherwise --no-routing, never route; otherwise an explicit --agent,
\* route; otherwise the configured setting decides when it is disabled or
\* enabled; otherwise route exactly when the router is enabled and an agent is
\* registered, an error in that check meaning no routing.
C33_RoutingPrecedence ==
  \A p \in PromptIds :
    routeRuns[p].stage # "none"
      => (routeRuns[p].attempted <=> RoutedByPrecedence(routeRuns[p]))

\* --no-routing wins over --agent, and --agent wins over a disabled setting
C33_Witness ==
  \E p, q \in PromptIds :
    /\ routeRuns[p].stage # "none" /\ routeRuns[q].stage # "none"
    /\ routeRuns[p].noRouting /\ routeRuns[p].agent /\ ~routeRuns[p].attempted
    /\ ~routeRuns[p].planModeActive
    /\ ~routeRuns[q].noRouting /\ routeRuns[q].agent /\ routeRuns[q].attempted
    /\ routeOpts.routingConfig = "disabled"

handleNextTodoThrows(j) ==
  /\ j \in jobs
  /\ j.type = "next"
  /\ jobs' = jobs \ {j}
  /\ executionQueue' = NoQueue
  /\ UNCHANGED <<aux, deps, todos, todosRef, executionQueueRef, isResponding, rendered,
                 approvalMode, turnCancelledRef, abortRef, turns, nTurns, toolCalls,
                 nCalls, timers, report, sendCount, halted, nRuns>>

ContinuationNext ==
  \/ Next
  \/ \E j \in jobs : handleNextTodoThrows(j)

\* a session in approval mode DEFAULT in which only the batch runs change the
\* approval mode; the continuation step may fail
ContinuationSpec == Init /\ [][ContinuationNext]_vars

\* the ExecutionQueue of a batch is cleared
ClearsQueue == executionQueue.active /\ ~executionQueue'.active

\* the approval mode in effect before every batch of such a session
ModeBeforeBatch == "DEFAULT"

\* C35: whenever a batch ends and its ExecutionQueue is cleared (batch complete,
\* error, user cancellation, or a failure inside the continuation step), the
\* approval mode is the one that was in effect before the batch started; no
\* auto-approval mode set for the batch outlives the batch.
C35_ApprovalModeRestored ==
  [][ClearsQueue => approvalMode' = ModeBeforeBatch]_vars

\* ------------------------------------------------------- cancellation: display

\* a Content event of the stream of turn t: handleContentEvent returns at once
\* when turnCancelledRef.current is set, and else puts the text into the
\* pending message
handleContentEvent(t) ==
  /\ turns[t].phase = "open"
  /\ StreamMayStep(t)
  /\ display.pending < MaxContent
  /\ display' = IF turnCancelledRef THEN display
                ELSE [display EXCEPT !.pending = display.pending + 1]
  /\ UNCHANGED <<approvalVars, routingVars, routerVars, handoffVars, workflowVars,
                 todoOutcome, adapterCall, pack, hookVars>>

CancelNext ==
  \/ UserPrompt
  \/ Render
  \/ cancelOngoingRequest
  \/ \E t \in TurnIds : handleContentEvent(t)
  \/ \E t \in TurnIds : handleUserCancelledEvent(t)
  \/ \E t \in TurnIds : processGeminiStreamEvents(t, 0)

\* prompts of the user, their streams, and the Escape key
CancelSpec == ToolInit /\ [][CancelNext]_vars

\* a step with an effect of cancelOngoingRequest: the flag of the turn is set,
\* a controller is aborted, or 'Request cancelled.' is added to the history
CancelEffect ==
  \/ turnCancelledRef' /\ ~turnCancelledRef
  \/ \E t \in TurnIds : turns'[t].aborted /\ ~turns[t].aborted
  \/ display'.cancelTurn # display.cancelTurn
  \/ display'.cancelItems # display.cancelItems

\* cancelOngoingRequest acts only in Responding on a turn not yet cancelled
CancelOnlyWhenResponding ==
  CancelEffect => rendered.streamingState = "Responding" /\ ~turnCancelledRef

\* a content event of a cancelled turn leaves the pending message as it is
CancelledContentDropped ==
  \A t \in TurnIds :
    (handleContentEvent(t) /\ turns[t].aborted) => display'.pending = display.pending

\* C36: cancelOngoingRequest has an effect only when the streaming state is
\* Responding and the turn is not already cancelled, 'Request cancelled.' is
\* added at most once per turn, and after it the content events of that turn
\* no longer change the displayed message.
C36_CancelOnce ==
  /\ [](display.cancelItems <= 1)
  /\ [][CancelOnlyWhenResponding /\ CancelledContentDropped]_vars

\* the guard and the single history item alone
CancelOnceItems ==
  /\ [](display.cancelItems <= 1)
  /\ [][CancelOnlyWhenResponding]_vars

\* ------------------------------------------------------------- streaming state

\* the calls the scheduler tracks
Tracked(calls) == {c \in CallIds : calls[c].status # "none"}

\* the streaming state ss as the hook and the tracked calls determine it
DeterminedBy(ss, resp, calls) ==
  /\ ss \in {"WaitingForConfirmation", "Responding", "Idle"}
  /\ ss = "WaitingForConfirmation"
       <=> \E c \in Tracked(calls) : calls[c].status = "awaiting_approval"
  /\ ss # "WaitingForConfirmation"
       => (ss = "Responding"
             <=> \/ resp
                 \/ \E c \in Tracked(calls) :
                      \/ calls[c].status \in {"validating", "scheduled", "executing"}
                      \/ /\ calls[c].status \in {"success", "error", "cancelled"}
                         /\ ~calls[c].submitted)
  /\ ss = "Idle"
       => \A c \in Tracked(calls) :
            calls[c].status \in {"success", "error", "cancelled"} /\ calls[c].submitted

\* C37: the streamingState of a render is WaitingForConfirmation iff some
\* tracked tool call is awaiting_approval; otherwise it is Responding iff
\* isResponding holds or some tracked call is validating, scheduled, executing,
\* or terminal with its response not yet submitted; otherwise it is Idle. Hence
\* Idle implies every tracked call is terminal and submitted.
C37_StreamingStateDetermined ==
  [][rendered' # rendered
       => DeterminedBy(rendered'.streamingState, isResponding', toolCalls')]_vars

\* rendered Idle with a tracked call, after a render that had shown
\* WaitingForConfirmation for it
C37_Witness ==
  /\ rendered.streamingState = "Idle"
  /\ ~Dirty
  /\ \E c \in Tracked(toolCalls) : toolCalls[c].submitted /\ c \in autoApproved

\* ------------------------------------------------------ submitQuery while busy

\* submitQuery(query) called with the user's input in whatever streaming state
\* the last render showed
userSubmitQuery ==
  /\ NoJobs
  /\ ~Dirty
  /\ IF returnsEarly(rendered.streamingState)
       THEN UNCHANGED <<turns, nTurns, abortRef, turnCancelledRef, isResponding>>
       ELSE StartTurn("user", 0)
  /\ UNCHANGED <<aux, deps, todos, executionQueue, todosRef, executionQueueRef, rendered,
                 approvalMode, toolCalls, nCalls, jobs, timers, report, sendCount,
                 halted, nRuns>>

SubmitNext ==
  \/ userSubmitQuery
  \/ Render
  \/ \E t \in TurnIds, n \in 0..MaxCalls : processGeminiStreamEvents(t, n)
  \/ \E j \in jobs : handleCompletedTools(j)
  \/ \E c \in CallIds : ToolValidate(c)
  \/ \E c \in CallIds, needsApproval \in BOOLEAN : ToolDispatch(c, needsApproval)
  \/ \E c \in CallIds, proceed \in BOOLEAN : ToolConfirm(c, proceed)
  \/ \E c \in CallIds, ok \in BOOLEAN : ToolFinish(c, ok)

\* the user submits whenever they like, the tools ask for confirmation or not
SubmitSpec == ApprovalInit /\ [][SubmitNext]_vars

\* the hook shows Responding or WaitingForConfirmation
Busy == rendered.streamingState \in {"Responding", "WaitingForConfirmation"}

\* nothing of the running turn is touched and no model call is made
NothingChanges ==
  /\ nTurns' = nTurns
  /\ turns' = turns
  /\ abortRef' = abortRef
  /\ turnCancelledRef' = turnCancelledRef
  /\ isResponding' = isResponding
  /\ display' = display
  /\ report' = report
  /\ sendCount' = sendCount

\* a model call that starts while the hook is busy is a continuation
OnlyContinuationsWhileBusy ==
  (Busy /\ nTurns' > nTurns) => turns'[nTurns'].kind = "cont"

\* C38: a non-continuation submitQuery issued while the streaming state is
\* Responding or WaitingForConfirmation changes nothing: no model call, the
\* abort controller and the turn-cancelled flag of the running turn are not
\* replaced or reset, no history item; only continuation submissions may start
\* a model call in those states.
C38_SubmitWhileBusyIgnored ==
  [][((userSubmitQuery /\ Busy) => NothingChanges) /\ OnlyContinuationsWhileBusy]_vars

\* a continuation was started while the hook was busy, and the hook now waits
\* for a confirmation with a turn whose controller a new query would replace
C38_Witness ==
  /\ rendered.streamingState = "WaitingForConfirmation"
  /\ NoJobs
  /\ ~Dirty
  /\ nTurns = 2
  /\ sendCount[1] = 1
  /\ abortRef = 2

\* ------------------------------------------------------- todos: final statuses

\* C39: once a todo has status completed or cancelled, no batch reaction (turn
\* end, error event, cancellation, continuation) changes its status again: a
\* todo the error handler marked cancelled is never marked completed
\* afterwards, and a completed one never cancelled.
C39_FinalStatusKept ==
  [][\A t \in TodoIds :
       todos[t] \in {"completed", "cancelled"} => todos'[t] = todos[t]]_vars

\* ------------------------------------------------------- batch run: the counts

\* currentIndex stays within the totalCount of the batch
IndexWithinTotal ==
  executionQueue.active
    => 0 <= executionQueue.currentIndex
       /\ executionQueue.currentIndex <= executionQueue.totalCount

\* the prompt of a todo goes to the model for the batch
DispatchesSome == \E t \in TodoIds : Dispatches(t)

\* currentIndex moves by one, and only for a todo that is dispatched: the run
\* command dispatches as it sets the index, handleNextTodo hands the prompt to
\* the timer that dispatches it
IndexStepsWithDispatch ==
  /\ (executionQueue.active /\ executionQueue'.active
        /\ executionQueue'.currentIndex # executionQueue.currentIndex)
       => /\ executionQueue'.currentIndex = executionQueue.currentIndex + 1
          /\ \E p \in timers' \ timers : p.index = executionQueue'.currentIndex
  /\ \A p \in timers \ timers' : DispatchesSome

\* the todos that are completed
Completed(td) == {t \in TodoIds : td[t] = "completed"}

\* the count a batch message gives for the todos done
ReportedDone(r) == IF r.kind = "failed" THEN r.done - 1 ELSE r.done

\* a batch message does not count more todos than are completed
CountsWithinCompleted ==
  (report' # report /\ report'.kind # "none")
    => ReportedDone(report') <= Cardinality(Completed(todos'))

\* a todo is started from pending only and never becomes pending again, so no
\* todo is handed to the model twice: every dispatch of the batch follows one
\* start of its todo
StartedOnce ==
  \A t \in TodoIds :
    /\ (todos'[t] = "in_progress" /\ todos[t] # "in_progress") => todos[t] = "pending"
    /\ todos[t] # "pending" => todos'[t] # "pending"

\* C40: while an ExecutionQueue is active, 0 <= currentIndex <= totalCount,
\* currentIndex grows by exactly one per todo dispatched, no todo is dispatched
\* twice in one batch, and the counts reported at completion or interruption
\* never exceed the number of todos actually completed by the batch.
C40_BatchCounts ==
  /\ []IndexWithinTotal
  /\ [][IndexStepsWithDispatch /\ StartedOnce /\ CountsWithinCompleted]_vars

\* the bounds of currentIndex and the single start of every todo alone
BatchIndexBounds ==
  /\ []IndexWithinTotal
  /\ [][StartedOnce]_vars


====
